---- MODULE Spec2Model ----
(***************************************************************************)
(* Model of the resume text pipeline of lib/resumeParser.ts:               *)
(* parseResume / parsePDF / parseDOCX / cleanText, validateResumeFile and  *)
(* getResumeMetadata.  Texts and paths are sequences of one-character      *)
(* strings.                                                                *)
(***************************************************************************)
EXTENDS Integers, Sequences, FiniteSets, TLC

VARIABLES
    file,       \* the file on storage the calls are about: [path, status, size]
    call,       \* the invocation in progress (or just finished)
    validated,  \* a validateResumeFile call on file.path has returned {valid: true}
    calls,      \* number of invocations started so far
    input,      \* argument of the pure text functions
    out         \* results of the pure text functions

vars == <<file, call, validated, calls, input, out>>

----------------------------------------------------------------------------
(* Bounds of the model *)

\* longest normalized text the extractors return in the model
MaxTextLen == 51
\* number of invocations one behaviour makes
MaxCalls == 2
\* longest text over the small alphabet given to the pure text functions
MaxSmallLen == 5
\* largest number of words of the word texts given to getResumeMetadata
MaxWords == 51

----------------------------------------------------------------------------
(* Characters and strings *)

\* the characters matched by \s (and stripped by trim) that the model uses
WhitespaceChars == {" ", "\t", "\n", "\r"}

IsWhitespace(c) == c \in WhitespaceChars

Rep(c, n) == [i \in 1..n |-> c]

UpperCase == <<"A","B","C","D","E","F","G","H","I","J","K","L","M",
               "N","O","P","Q","R","S","T","U","V","W","X","Y","Z">>
LowerCase == <<"a","b","c","d","e","f","g","h","i","j","k","l","m",
               "n","o","p","q","r","s","t","u","v","w","x","y","z">>

ToLowerChar(c) ==
    IF \E i \in 1..Len(UpperCase) : UpperCase[i] = c
    THEN LowerCase[CHOOSE i \in 1..Len(UpperCase) : UpperCase[i] = c]
    ELSE c

\* String.prototype.toLowerCase
toLowerCase(s) == [i \in 1..Len(s) |-> ToLowerChar(s[i])]

\* index of the last occurrence of character c in s, 0 when there is none
LastIndexOf(s, c) ==
    IF \E i \in 1..Len(s) : s[i] = c
    THEN CHOOSE i \in 1..Len(s) : s[i] = c /\ \A j \in (i+1)..Len(s) : s[j] # c
    ELSE 0

\* the last portion of a path (paths of the model have no trailing slash)
BaseName(p) == SubSeq(p, LastIndexOf(p, "/") + 1, Len(p))

\* path.extname: from the last dot of the last portion to its end; empty when
\* there is no dot, when the only dot is the portion's first character, and
\* for the portion ".."
extname(p) ==
    LET b == BaseName(p)
        d == LastIndexOf(b, ".")
    IN  IF d <= 1 \/ b = <<".", ".">> THEN <<>> ELSE SubSeq(b, d, Len(b))

\* the set of positions of s holding a character of set cs
Positions(s, cs) == { i \in 1..Len(s) : s[i] \in cs }

\* the least position of s holding a character of cs, Len(s) + 1 when none
FirstIn(s, cs) ==
    IF Positions(s, cs) = {} THEN Len(s) + 1
    ELSE CHOOSE i \in Positions(s, cs) : \A j \in Positions(s, cs) : i <= j

\* the least position of s holding a character outside cs, Len(s) + 1 when none
FirstNotIn(s, cs) ==
    LET ps == (1..Len(s)) \ Positions(s, cs)
    IN  IF ps = {} THEN Len(s) + 1
        ELSE CHOOSE i \in ps : \A j \in ps : i <= j

\* String.prototype.trim
TrimStart(s) == SubSeq(s, FirstNotIn(s, WhitespaceChars), Len(s))

TrimEnd(s) ==
    IF \E i \in 1..Len(s) : ~IsWhitespace(s[i])
    THEN SubSeq(s, 1, CHOOSE i \in 1..Len(s) :
                          ~IsWhitespace(s[i]) /\ \A j \in (i+1)..Len(s) : IsWhitespace(s[j]))
    ELSE <<>>

trim(s) == TrimEnd(TrimStart(s))

\* s.replace(/\s\s/, ' '): the first pair of whitespace only, instead of every run
CollapseWhitespace_Pairs(s) ==
    LET ps == { k \in 1..(Len(s) - 1) : IsWhitespace(s[k]) /\ IsWhitespace(s[k+1]) }
    IN  IF ps = {} THEN s
        ELSE SubSeq(s, 1, (CHOOSE k \in ps : \A j \in ps : k <= j) - 1)
             \o <<" ">>
             \o SubSeq(s, (CHOOSE k \in ps : \A j \in ps : k <= j) + 2, Len(s))

\* s.replace(/\s+/g, ' '): every maximal run of whitespace becomes one space
RECURSIVE CollapseWhitespace(_)
CollapseWhitespace(s) ==
    LET k == FirstIn(s, WhitespaceChars)
    IN  IF k > Len(s) THEN s
        ELSE SubSeq(s, 1, k - 1) \o <<" ">>
             \o CollapseWhitespace(TrimStart(SubSeq(s, k, Len(s))))

\* length of the run of line breaks s starts with
LineBreakRun(s) == FirstNotIn(s, {"\n"}) - 1

\* s.replace(/\n{3,}/g, '\n\n'): every maximal run of 3 or more line breaks
\* becomes two line breaks
RECURSIVE CollapseLineBreaks(_)
CollapseLineBreaks(s) ==
    LET k == FirstIn(s, {"\n"})
    IN  IF k > Len(s) THEN s
        ELSE LET rest == SubSeq(s, k, Len(s))
                 n == LineBreakRun(rest)
             IN  SubSeq(s, 1, k - 1)
                 \o (IF n >= 3 THEN <<"\n", "\n">> ELSE SubSeq(rest, 1, n))
                 \o CollapseLineBreaks(SubSeq(rest, n + 1, Len(rest)))

\* cleanText without the final trim
cleanText_NoTrim(text) == CollapseLineBreaks(CollapseWhitespace(text))

\* cleanText: whitespace runs, then line-break runs, then trim, in that order
cleanText(text) == trim(CollapseLineBreaks(CollapseWhitespace(text)))

\* s.split(/\s+/): the pieces between the maximal whitespace runs (a run at
\* either end leaves an empty piece there; the empty string gives one piece)
RECURSIVE SplitWhitespace(_)
SplitWhitespace(s) ==
    LET k == FirstIn(s, WhitespaceChars)
    IN  IF k > Len(s) THEN <<s>>
        ELSE <<SubSeq(s, 1, k - 1)>> \o SplitWhitespace(TrimStart(SubSeq(s, k, Len(s))))

----------------------------------------------------------------------------
(* Program constants *)

\* parseResume: minimum length of the cleaned text, in characters
MinChars == 50
\* getResumeMetadata: minimum word count for hasContent
MinWords == 50
\* validateResumeFile: maximum file size in bytes
MaxFileSize == 10 * 1024 * 1024

UnsupportedMessage == "Unsupported file format: ${fileExtension}. Only PDF and DOCX are supported."
TooShortMessage == "Resume appears to be empty or too short. Please upload a valid resume."
GenericMessage == "Failed to parse resume. Please ensure the file is not corrupted."
PdfEmptyMessage == "PDF contains no extractable text. It may be an image-based PDF."
PdfFailedMessage == "Failed to parse PDF file. The file may be corrupted or password-protected."
DocxEmptyMessage == "DOCX contains no extractable text."
DocxFailedMessage == "Failed to parse DOCX file. The file may be corrupted or in an unsupported format."
SizeMessage == "File size exceeds 10MB limit"
ExtensionMessage == "Only PDF and DOCX files are supported"
NotFoundMessage == "File not found or inaccessible"

----------------------------------------------------------------------------
(* Errors, verdicts and invocations *)

NoError == [isError |-> FALSE, message |-> "", arg |-> <<>>, cause |-> "none"]

\* new Error(message): an Error that carries a message and no cause;
\* arg is the value interpolated into the message
NewError(message, arg) ==
    [isError |-> TRUE, message |-> message, arg |-> arg, cause |-> "none"]

NoVerdict == [valid |-> FALSE, hasError |-> FALSE, error |-> ""]

Idle ==
    [op |-> "none", pc |-> "idle", path |-> <<>>, fmt |-> "none", reads |-> 0,
     exc |-> "none", libReturned |-> FALSE, raw |-> <<>>, text |-> <<>>,
     verdict |-> NoVerdict, error |-> NoError, logged |-> <<>>]

\* console.error(tag, error)
LogEntry(tag, what) == [tag |-> tag, what |-> what]

----------------------------------------------------------------------------
(* parseResume, parsePDF, parseDOCX *)

\* a prefix test instead of equality: .doc taken for .docx
FormatOf_Prefix(ext) ==
    IF ext = <<".", "p", "d", "f">> THEN "pdf"
    ELSE IF Len(ext) >= 4 /\ SubSeq(ext, 1, 4) = <<".", "d", "o", "c">> THEN "docx"
    ELSE "unsupported"

\* the branch parseResume takes for a lower-cased extension
FormatOf(ext) ==
    IF ext = <<".", "p", "d", "f">> THEN "pdf"
    ELSE IF ext = <<".", "d", "o", "c", "x">> THEN "docx"
    ELSE "unsupported"

\* catch block of parseResume: log, rethrow an Error as it is, replace
\* anything else by the generic error
ParseResumeCatch(c, e) ==
    [c EXCEPT !.pc = "thrown",
              !.error = IF e.isError THEN e ELSE NewError(GenericMessage, <<>>),
              !.logged = Append(@, LogEntry("Resume parsing error:", e.message))]

\* parseResume up to its first suspension point
ParseResumeStart(path) ==
    LET fileExtension == toLowerCase(extname(path))
        fmt == FormatOf(fileExtension)
        c == [Idle EXCEPT !.op = "parseResume", !.path = path]
    IN  IF fmt = "unsupported"
        THEN ParseResumeCatch(c, NewError(UnsupportedMessage, fileExtension))
        ELSE [c EXCEPT !.pc = "readFile", !.fmt = fmt, !.reads = 1]

FailedMessage(fmt) == IF fmt = "pdf" THEN PdfFailedMessage ELSE DocxFailedMessage
EmptyMessage(fmt) == IF fmt = "pdf" THEN PdfEmptyMessage ELSE DocxEmptyMessage
ExtractorLogTag(fmt) == IF fmt = "pdf" THEN "PDF parsing error:" ELSE "DOCX parsing error:"

\* the catch block putting the message of what it caught into its error
ExtractorCatchError_Leak(fmt, caught) == NewError(caught.message, <<>>)

\* the catch block rethrowing what it caught
ExtractorCatchError_Rethrow(fmt, caught) == caught

\* the error the catch block of parsePDF / parseDOCX throws for what it caught
ExtractorCatchError(fmt, caught) == NewError(FailedMessage(fmt), <<>>)

\* catch block of parsePDF / parseDOCX followed by the catch block of
\* parseResume (what names the caught value in the log)
ExtractorCatch(c, caught, what) ==
    ParseResumeCatch(
        [c EXCEPT !.logged = Append(@, LogEntry(ExtractorLogTag(c.fmt), what))],
        ExtractorCatchError(c.fmt, caught))

\* !text || text.trim().length === 0
IsEmptyText(text) == text = <<>> \/ Len(trim(text)) = 0

\* <= in place of <
IsTooShort_OffByOne(cleanedText) == cleanedText = <<>> \/ Len(trim(cleanedText)) <= MinChars

\* !cleanedText || cleanedText.trim().length < 50
IsTooShort(cleanedText) == cleanedText = <<>> \/ Len(trim(cleanedText)) < MinChars

\* fs.readFile completes with outcome r ("ok" or the name of the exception)
ParseResumeReadDone(c, r) ==
    IF r = "ok" THEN [c EXCEPT !.pc = "library"]
    ELSE ExtractorCatch([c EXCEPT !.exc = r],
                        [isError |-> TRUE, message |-> r, arg |-> <<>>, cause |-> "none"], r)

\* lines 36-43 of parseResume: clean, check the length, return
ParseResumeFinish(c, text) ==
    LET cleanedText == cleanText(text)
    IN  IF IsTooShort(cleanedText)
        THEN ParseResumeCatch(c, NewError(TooShortMessage, <<>>))
        ELSE [c EXCEPT !.pc = "returned", !.text = cleanedText]

\* the library call completes: o.throws names the exception it threw
\* ("none" when it returned o.text)
ParseResumeLibraryDone(c, o) ==
    IF o.throws # "none"
    THEN ExtractorCatch([c EXCEPT !.exc = o.throws],
                        [isError |-> TRUE, message |-> o.throws, arg |-> <<>>, cause |-> "none"],
                        o.throws)
    ELSE LET d == [c EXCEPT !.libReturned = TRUE, !.raw = o.text]
         IN  IF IsEmptyText(o.text)
             THEN ExtractorCatch(d, NewError(EmptyMessage(c.fmt), <<>>), EmptyMessage(c.fmt))
             ELSE ParseResumeFinish(d, o.text)

----------------------------------------------------------------------------
(* validateResumeFile *)

Verdict(valid, hasError, error) == [valid |-> valid, hasError |-> hasError, error |-> error]

\* the catch block rethrowing instead of returning a verdict
ValidateCatch_Rethrow(c, e) ==
    [c EXCEPT !.pc = "thrown", !.exc = e,
              !.logged = Append(@, LogEntry("File validation error:", e))]

\* catch block of validateResumeFile
ValidateCatch(c, e) ==
    [c EXCEPT !.pc = "returned", !.exc = e,
              !.verdict = Verdict(FALSE, TRUE, NotFoundMessage),
              !.logged = Append(@, LogEntry("File validation error:", e))]

\* >= in place of > in the size check
ValidateChecks_OffByOne(size, path) ==
    LET ext == toLowerCase(extname(path))
    IN  IF size >= MaxFileSize THEN Verdict(FALSE, TRUE, SizeMessage)
        ELSE IF ext # <<".", "p", "d", "f">> /\ ext # <<".", "d", "o", "c", "x">>
             THEN Verdict(FALSE, TRUE, ExtensionMessage)
             ELSE Verdict(TRUE, FALSE, "")

\* the size check, then the extension check
ValidateChecks(size, path) ==
    LET ext == toLowerCase(extname(path))
    IN  IF size > MaxFileSize THEN Verdict(FALSE, TRUE, SizeMessage)
        ELSE IF ext # <<".", "p", "d", "f">> /\ ext # <<".", "d", "o", "c", "x">>
             THEN Verdict(FALSE, TRUE, ExtensionMessage)
             ELSE Verdict(TRUE, FALSE, "")

ValidateStart(path) == [Idle EXCEPT !.op = "validateResumeFile", !.path = path, !.pc = "access"]

\* fs.access completes
ValidateAccessDone(c, r) ==
    IF r = "ok" THEN [c EXCEPT !.pc = "stat"] ELSE ValidateCatch(c, r)

\* fs.stat completes: s.throws names the exception ("none": s.size is the size)
ValidateStatDone(c, s) ==
    IF s.throws # "none" THEN ValidateCatch(c, s.throws)
    ELSE [c EXCEPT !.pc = "returned", !.verdict = ValidateChecks(s.size, c.path)]

----------------------------------------------------------------------------
(* getResumeMetadata *)

\* > in place of >=
getResumeMetadata_OffByOne(text) ==
    LET cleanedText == cleanText(text)
        wordCount == Len(SplitWhitespace(cleanedText))
    IN  [rawText |-> cleanedText, wordCount |-> wordCount,
         hasContent |-> wordCount > MinWords]

getResumeMetadata(text) ==
    LET cleanedText == cleanText(text)
        wordCount == Len(SplitWhitespace(cleanedText))
    IN  [rawText |-> cleanedText, wordCount |-> wordCount,
         hasContent |-> wordCount >= MinWords]

----------------------------------------------------------------------------
(* The environment: paths, files, storage and library outcomes, texts *)

Paths ==
    { <<"r", ".", "p", "d", "f">>,
      <<"r", ".", "P", "D", "F">>,
      <<"u", "/", "r", ".", "d", "o", "c", "x">>,
      <<"r", ".", "D", "o", "c", "X">>,
      <<"r", ".", "d", "o", "c">>,
      <<"r", ".", "t", "x", "t">>,
      <<"r">>,
      <<"r", ".">>,
      <<".", "p", "d", "f">>,
      <<"u", ".", "p", "d", "f", "/", "r">>,
      <<"r", ".", "p", "d", "f", ".", "e", "x", "e">> }

FileStatus == {"ok", "missing", "noaccess"}

FileSizes == {1, MaxFileSize - 1, MaxFileSize, MaxFileSize + 1}

Files ==
    { [path |-> p, status |-> "ok", size |-> n] : p \in Paths, n \in FileSizes }
    \cup { [path |-> p, status |-> st, size |-> 0] :
              p \in Paths, st \in FileStatus \ {"ok"} }

\* how fs.access and fs.readFile can complete on file f
StorageOutcomes(f) ==
    IF f.status = "missing" THEN {"ENOENT"}
    ELSE IF f.status = "noaccess" THEN {"EACCES"}
    ELSE {"ok", "EIO"}

\* how fs.stat can complete on file f once fs.access has succeeded
StatOutcomes(f) ==
    { [throws |-> "none", size |-> f.size], [throws |-> "ENOENT", size |-> 0] }

Pads == { <<>>, <<" ">>, <<"\n">> }

Separators == { <<" ">>, <<" ", " ">>, <<"\n", "\n", "\n">>, <<"\t", "\n">> }

\* lengths of the cleaned texts around the minimum
TextLengths == (MinChars - 2)..MaxTextLen

\* texts of two words whose cleaned form has n characters
TwoWordTexts(n) ==
    { lead \o Rep("a", 24) \o sep \o Rep("b", n - 25) \o trail :
          lead \in Pads, sep \in Separators, trail \in Pads }

\* what the PDF / DOCX library can return as the text of a document
ExtractorTexts ==
    { <<>>, <<" ">>, <<"\n", "\t">>, <<"a">>, <<" ", "a", " ", " ", "b", "\n">> }
    \cup UNION { TwoWordTexts(n) : n \in TextLengths }
    \cup { Rep("a", n) : n \in TextLengths }

LibraryOutcomes ==
    { [throws |-> "none", text |-> t] : t \in ExtractorTexts }
    \cup { [throws |-> e, text |-> <<>>] :
              e \in {"InvalidPDFException", "PasswordException", "TypeError"} }

NoOut == [stage |-> "init", once |-> <<>>, twice |-> <<>>,
          meta |-> [rawText |-> <<>>, wordCount |-> 0, hasContent |-> FALSE]]

----------------------------------------------------------------------------
(* The pipeline: invocations of parseResume and validateResumeFile on a file *)

Init ==
    /\ file \in Files
    /\ call = Idle
    /\ validated = FALSE
    /\ calls = 0
    /\ input = <<>>
    /\ out = NoOut

CallParseResume ==
    /\ call.pc = "idle"
    /\ calls < MaxCalls
    /\ call' = ParseResumeStart(file.path)
    /\ calls' = calls + 1
    /\ UNCHANGED <<file, validated, input, out>>

ReadFileDone ==
    /\ call.pc = "readFile"
    /\ \E r \in StorageOutcomes(file) : call' = ParseResumeReadDone(call, r)
    /\ UNCHANGED <<file, validated, calls, input, out>>

LibraryDone ==
    /\ call.pc = "library"
    /\ \E o \in LibraryOutcomes : call' = ParseResumeLibraryDone(call, o)
    /\ UNCHANGED <<file, validated, calls, input, out>>

CallValidateResumeFile ==
    /\ call.pc = "idle"
    /\ calls < MaxCalls
    /\ call' = ValidateStart(file.path)
    /\ calls' = calls + 1
    /\ UNCHANGED <<file, validated, input, out>>

AccessDone ==
    /\ call.pc = "access"
    /\ \E r \in StorageOutcomes(file) : call' = ValidateAccessDone(call, r)
    /\ UNCHANGED <<file, validated, calls, input, out>>

StatDone ==
    /\ call.pc = "stat"
    /\ \E s \in StatOutcomes(file) : call' = ValidateStatDone(call, s)
    /\ UNCHANGED <<file, validated, calls, input, out>>

\* the caller takes the outcome of the invocation
Return ==
    /\ call.pc \in {"returned", "thrown"}
    /\ call' = Idle
    /\ validated' = (validated \/ (call.op = "validateResumeFile" /\ call.verdict.valid))
    /\ UNCHANGED <<file, calls, input, out>>

Next ==
    \/ CallParseResume
    \/ ReadFileDone
    \/ LibraryDone
    \/ CallValidateResumeFile
    \/ AccessDone
    \/ StatDone
    \/ Return

Spec == Init /\ [][Next]_vars

----------------------------------------------------------------------------
(* The pure text functions applied to bounded inputs *)

Alphabet == {"a", " ", "\n", "\t"}

SmallTexts == UNION { [1..n -> Alphabet] : n \in 0..MaxSmallLen }

Word == <<"w", "o", "r", "d">>

\* String.prototype.repeat
RECURSIVE repeat(_, _)
repeat(s, n) == IF n <= 0 THEN <<>> ELSE s \o repeat(s, n - 1)

WordCounts == {0, 1, 2} \cup (MinWords - 2)..MaxWords

\* "word ".repeat(n) and its variants: other separators, padding in front, a
\* last word with no whitespace after it
WordTexts ==
    { lead \o repeat(Word \o sep, n) \o last :
          lead \in Pads, sep \in Separators, n \in WordCounts, last \in {<<>>, Word} }

TextInputs == SmallTexts \cup WordTexts

InitText ==
    /\ input \in TextInputs
    /\ out = NoOut
    /\ file = [path |-> <<>>, status |-> "missing", size |-> 0]
    /\ call = Idle
    /\ validated = FALSE
    /\ calls = 0

\* normalize(x)
Normalize ==
    /\ out.stage = "init"
    /\ out' = [out EXCEPT !.stage = "normalized", !.once = cleanText(input)]
    /\ UNCHANGED <<file, call, validated, calls, input>>

\* normalize(normalize(x))
NormalizeAgain ==
    /\ out.stage = "normalized"
    /\ out' = [out EXCEPT !.stage = "renormalized", !.twice = cleanText(out.once)]
    /\ UNCHANGED <<file, call, validated, calls, input>>

GetResumeMetadata ==
    /\ out.stage = "init"
    /\ out' = [out EXCEPT !.stage = "metadata", !.meta = getResumeMetadata(input)]
    /\ UNCHANGED <<file, call, validated, calls, input>>

NextText ==
    \/ Normalize
    \/ NormalizeAgain
    \/ GetResumeMetadata

SpecText == InitText /\ [][NextText]_vars

----------------------------------------------------------------------------
(* extractResumeSections *)

\* the character of t at position i, "" outside t
CharAt(t, i) == IF i \in 1..Len(t) THEN t[i] ELSE ""

\* the literal p stands in s at position i
StartsAt(s, i, p) ==
    /\ i >= 1
    /\ i + Len(p) - 1 <= Len(s)
    /\ \A j \in 1..Len(p) : s[i + j - 1] = p[j]

\* String.prototype.includes
includes(s, p) == \E i \in 1..(Len(s) - Len(p) + 1) : StartsAt(s, i, p)

skillKeywords ==
    <<
      <<"J", "a", "v", "a", "S", "c", "r", "i", "p", "t">>,   \* JavaScript
      <<"T", "y", "p", "e", "S", "c", "r", "i", "p", "t">>,   \* TypeScript
      <<"P", "y", "t", "h", "o", "n">>,   \* Python
      <<"J", "a", "v", "a">>,   \* Java
      <<"C", "+", "+">>,   \* C++
      <<"R", "e", "a", "c", "t">>,   \* React
      <<"N", "o", "d", "e", ".", "j", "s">>,   \* Node.js
      <<"A", "W", "S">>,   \* AWS
      <<"D", "o", "c", "k", "e", "r">>,   \* Docker
      <<"K", "u", "b", "e", "r", "n", "e", "t", "e", "s">>,   \* Kubernetes
      <<"S", "Q", "L">>,   \* SQL
      <<"M", "o", "n", "g", "o", "D", "B">>,   \* MongoDB
      <<"G", "i", "t">>,   \* Git
      <<"A", "g", "i", "l", "e">>,   \* Agile
      <<"M", "a", "c", "h", "i", "n", "e", " ", "L", "e", "a", "r", "n", "i", "n", "g">>,   \* Machine Learning
      <<"D", "a", "t", "a", " ", "A", "n", "a", "l", "y", "s", "i", "s">>,   \* Data Analysis
      <<"P", "r", "o", "j", "e", "c", "t", " ", "M", "a", "n", "a", "g", "e", "m", "e", "n", "t">>,   \* Project Management
      <<"L", "e", "a", "d", "e", "r", "s", "h", "i", "p">>   \* Leadership
    >>

educationKeywords ==
    <<
      <<"B", "a", "c", "h", "e", "l", "o", "r">>,   \* Bachelor
      <<"M", "a", "s", "t", "e", "r">>,   \* Master
      <<"P", "h", "D">>,   \* PhD
      <<"D", "e", "g", "r", "e", "e">>,   \* Degree
      <<"U", "n", "i", "v", "e", "r", "s", "i", "t", "y">>,   \* University
      <<"C", "o", "l", "l", "e", "g", "e">>,   \* College
      <<"C", "o", "m", "p", "u", "t", "e", "r", " ", "S", "c", "i", "e", "n", "c", "e">>,   \* Computer Science
      <<"E", "n", "g", "i", "n", "e", "e", "r", "i", "n", "g">>,   \* Engineering
      <<"B", "u", "s", "i", "n", "e", "s", "s", " ", "A", "d", "m", "i", "n", "i", "s", "t", "r", "a", "t", "i", "o", "n">>   \* Business Administration
    >>

\* text.includes(skill): the test without lower-casing
KeywordsIn_CaseSensitive(keywords, text) ==
    LET Found(k) == includes(text, k)
    IN  SelectSeq(keywords, Found)

\* keywords.forEach(k => { if (text.toLowerCase().includes(k.toLowerCase())) push(k) })
KeywordsIn(keywords, text) ==
    LET Found(k) == includes(toLowerCase(text), toLowerCase(k))
    IN  SelectSeq(keywords, Found)

Digits == {"0", "1", "2", "3", "4", "5", "6", "7", "8", "9"}

\* the characters [^.,\n] excludes
PhraseEnders == {".", ",", "\n"}

\* the least position >= i of t holding a character outside cs (Len(t) + 1
\* when there is none)
SkipIn(t, i, cs) == i - 1 + FirstNotIn(SubSeq(t, i, Len(t)), cs)

\* the least position >= i of t holding a character of cs (Len(t) + 1 when
\* there is none)
SkipTo(t, i, cs) == i - 1 + FirstIn(SubSeq(t, i, Len(t)), cs)

\* the literal p (in lower case) stands in t at position i, letter case
\* ignored (the i flag)
StartsAtIgnoreCase(t, i, p) ==
    /\ i >= 1
    /\ i + Len(p) - 1 <= Len(t)
    /\ \A j \in 1..Len(p) : ToLowerChar(t[i + j - 1]) = p[j]

\* a match: the position of its last character and its first captured group
\* (last = 0: no match)
NoMatch == [last |-> 0, group |-> <<>>]

\* the least and the greatest element of a non-empty set of positions
Least(ps) == CHOOSE x \in ps : \A y \in ps : x <= y
Greatest(ps) == CHOOSE x \in ps : \A y \in ps : y <= x

\* /experience/i tried at position p: the position of its last character, 0
\* when it does not match
ExperienceAt(t, p) ==
    IF StartsAtIgnoreCase(t, p, <<"e", "x", "p", "e", "r", "i", "e", "n", "c", "e">>)
    THEN p + 9 ELSE 0

\* /of\s+experience/i tried at position p, the whitespace after "of" ending
\* before position q
OfExperienceAt(t, p, q) ==
    IF StartsAtIgnoreCase(t, p, <<"o", "f">>) /\ q > p + 2 THEN ExperienceAt(t, q) ELSE 0

\* /(?:of\s+)?experience/i tried at position p: with "of" when that matches
\* (withOf is where it ends), without it otherwise
YearsEnd(t, p, withOf) == IF withOf > 0 THEN withOf ELSE ExperienceAt(t, p)

\* \s+ tried at position p: the position after the run, 0 when there is none
WhitespaceRunEnd(p, after) == IF after > p THEN after ELSE 0

\* /years?\s+/i tried at position p: the position after it, 0 when it does
\* not match
YearsWordEnd(t, p, afterYear) ==
    IF StartsAtIgnoreCase(t, p, <<"y", "e", "a", "r">>)
    THEN WhitespaceRunEnd(afterYear, SkipIn(t, afterYear, WhitespaceChars))
    ELSE 0

\* the match of the years pattern that starts at i, has its digits before
\* position d and its last character at position last (0: no match)
YearsMatch(t, i, d, last) ==
    IF last = 0 THEN NoMatch ELSE [last |-> last, group |-> SubSeq(t, i, d - 1)]

\* the years pattern from the end p of /years?\s+/ on (0: that did not match)
YearsAfterWord(t, i, d, p) ==
    IF p = 0 THEN NoMatch
    ELSE YearsMatch(t, i, d,
             YearsEnd(t, p, OfExperienceAt(t, p, SkipIn(t, p + 2, WhitespaceChars))))

\* the years pattern from the start p of /years?/ on
YearsAfterSpace(t, i, d, p) ==
    YearsAfterWord(t, i, d,
        YearsWordEnd(t, p, IF ToLowerChar(CharAt(t, p + 4)) = "s" THEN p + 5 ELSE p + 4))

\* the years pattern from the end d of its digits on
YearsAfterDigits(t, i, d) ==
    YearsAfterSpace(t, i, d,
        SkipIn(t, IF CharAt(t, d) = "+" THEN d + 1 ELSE d, WhitespaceChars))

\* /(\d+)\+?\s*years?\s+(?:of\s+)?experience/i tried at position i
YearsMatchAt(t, i) ==
    IF CharAt(t, i) \notin Digits THEN NoMatch
    ELSE YearsAfterDigits(t, i, SkipIn(t, i, Digits))

\* ([^.,\n]+) from position s to the position before e
Phrase(t, s, e) == [last |-> e - 1, group |-> SubSeq(t, s, e - 1)]

\* \s+([^.,\n]+) tried at position p, ks being the lengths \s+ can take with
\* the group starting on a character it accepts: \s+ gives back as little of
\* the whitespace run as that needs
PhraseAfter(t, p, ks) ==
    IF ks = {} THEN NoMatch
    ELSE Phrase(t, p + Greatest(ks), SkipTo(t, p + Greatest(ks), PhraseEnders))

\* lengths up to w that \s+ can take at position p with the group starting
\* on a character it accepts
PhraseStarts(t, p, w) ==
    { k \in 1..w : CharAt(t, p + k) # "" /\ CharAt(t, p + k) \notin PhraseEnders }

\* \s+([^.,\n]+) tried at position p
PhraseMatchAt(t, p) ==
    PhraseAfter(t, p, PhraseStarts(t, p, SkipIn(t, p, WhitespaceChars) - p))

\* /(?:as|at|with)/i tried at position p: the position after it, 0 when
\* none of the three matches
PrepositionEnd(t, p) ==
    IF StartsAtIgnoreCase(t, p, <<"a", "s">>) THEN p + 2
    ELSE IF StartsAtIgnoreCase(t, p, <<"a", "t">>) THEN p + 2
    ELSE IF StartsAtIgnoreCase(t, p, <<"w", "i", "t", "h">>) THEN p + 4
    ELSE 0

\* the phrase after the preposition that ends before position p (0: none)
WorkedPhrase(t, p) == IF p = 0 THEN NoMatch ELSE PhraseMatchAt(t, p)

\* /worked\s+(?:as|at|with)\s+([^.,\n]+)/i from the end p of the whitespace
\* after "worked" on, that whitespace starting at position w
WorkedAfterSpace(t, w, p) ==
    IF p = w THEN NoMatch ELSE WorkedPhrase(t, PrepositionEnd(t, p))

\* /worked\s+(?:as|at|with)\s+([^.,\n]+)/i tried at position i
WorkedMatchAt(t, i) ==
    IF ~StartsAtIgnoreCase(t, i, <<"w", "o", "r", "k", "e", "d">>) THEN NoMatch
    ELSE WorkedAfterSpace(t, i + 6, SkipIn(t, i + 6, WhitespaceChars))

\* /<verb>\s+([^.,\n]+)/i tried at position i
VerbMatchAt(t, i, verb) ==
    IF StartsAtIgnoreCase(t, i, verb) THEN PhraseMatchAt(t, i + Len(verb)) ELSE NoMatch

\* the verb of experiencePatterns[n], n from 3 on
PatternVerb(n) ==
    CASE n = 3 -> <<"d", "e", "v", "e", "l", "o", "p", "e", "d">>
      [] n = 4 -> <<"m", "a", "n", "a", "g", "e", "d">>
      [] n = 5 -> <<"l", "e", "d">>

\* experiencePatterns[n] tried at position i
PatternMatchAt(n, t, i) ==
    CASE n = 1 -> YearsMatchAt(t, i)
      [] n = 2 -> WorkedMatchAt(t, i)
      [] OTHER -> VerbMatchAt(t, i, PatternVerb(n))

NumPatterns == 5

\* the positions from i on at which experiencePatterns[n] matches
MatchStarts(n, t, i) == { j \in i..Len(t) : PatternMatchAt(n, t, j).last > 0 }

\* text.matchAll(experiencePatterns[n]) from position i on: the first captured
\* groups of the matches, left to right, each search starting after the
\* previous match
RECURSIVE MatchAllFrom(_, _, _)

\* the match m, then the matches after it
MatchThenRest(n, t, m) == <<m.group>> \o MatchAllFrom(n, t, m.last + 1)

\* the matches, the first of them starting at the least position of starts
MatchAllAmong(n, t, starts) ==
    IF starts = {} THEN <<>>
    ELSE MatchThenRest(n, t, PatternMatchAt(n, t, Least(starts)))

MatchAllFrom(n, t, i) == MatchAllAmong(n, t, MatchStarts(n, t, i))

\* bounds of the length filter on a captured phrase (both exclusive)
MinPhraseLen == 3
MaxPhraseLen == 100

\* the length filter with both bounds inclusive
KeepTrimmed_Inclusive(trimmed) ==
    Len(trimmed) >= MinPhraseLen /\ Len(trimmed) <= MaxPhraseLen

\* the trimmed phrase passes the length filter
KeepTrimmed(trimmed) == Len(trimmed) > MinPhraseLen /\ Len(trimmed) < MaxPhraseLen

\* match[1] && match[1].trim().length > 3 && match[1].trim().length < 100
KeepPhrase(group) == group # <<>> /\ KeepTrimmed(trim(group))

\* sections.experience.push(match[1].trim()) for each phrase kept
TrimAll(kept) == [k \in 1..Len(kept) |-> trim(kept[k])]

\* the entries experiencePatterns[n] adds to sections.experience
PatternEntries(n, text) == TrimAll(SelectSeq(MatchAllFrom(n, text, 1), KeepPhrase))

\* the patterns taken from the last to the first
RECURSIVE ExperienceFrom_Reversed(_, _)
ExperienceFrom_Reversed(n, text) ==
    IF n > NumPatterns THEN <<>>
    ELSE ExperienceFrom_Reversed(n + 1, text) \o PatternEntries(n, text)

\* experiencePatterns.forEach, from pattern n on
RECURSIVE ExperienceFrom(_, _)
ExperienceFrom(n, text) ==
    IF n > NumPatterns THEN <<>>
    ELSE PatternEntries(n, text) \o ExperienceFrom(n + 1, text)

extractResumeSections(text) ==
    [skills |-> KeywordsIn(skillKeywords, text),
     experience |-> ExperienceFrom(1, text),
     education |-> KeywordsIn(educationKeywords, text)]

----------------------------------------------------------------------------
(* formatResumeForAI *)

\* `You are conducting a professional job interview. Below is the candidate's resume information.\n\n`
Preamble ==
    <<"Y", "o", "u", " ", "a", "r", "e", " ", "c", "o", "n", "d", "u", "c", "t", "i", "n", "g", " ", "a", " ", "p", "r", "o", "f", "e", "s", "s", "i", "o", "n", "a", "l", " ", "j", "o", "b", " ", "i", "n", "t", "e", "r", "v", "i", "e", "w", ".", " ", "B", "e", "l", "o", "w", " ", "i", "s", " ", "t", "h", "e", " ", "c", "a", "n", "d", "i", "d", "a", "t", "e", "'", "s", " ", "r", "e", "s", "u", "m", "e", " ", "i", "n", "f", "o", "r", "m", "a", "t", "i", "o", "n", ".", "\n", "\n">>

\* `---\n\nINTERVIEW INSTRUCTIONS:\n`
InstructionsHeader ==
    <<"-", "-", "-", "\n", "\n", "I", "N", "T", "E", "R", "V", "I", "E", "W", " ", "I", "N", "S", "T", "R", "U", "C", "T", "I", "O", "N", "S", ":", "\n">>

\* `- Conduct a professional and thorough job interview\n`
Instruction1 ==
    <<"-", " ", "C", "o", "n", "d", "u", "c", "t", " ", "a", " ", "p", "r", "o", "f", "e", "s", "s", "i", "o", "n", "a", "l", " ", "a", "n", "d", " ", "t", "h", "o", "r", "o", "u", "g", "h", " ", "j", "o", "b", " ", "i", "n", "t", "e", "r", "v", "i", "e", "w", "\n">>

\* `- Ask relevant questions about their experience, skills, and projects mentioned in the resume\n`
Instruction2 ==
    <<"-", " ", "A", "s", "k", " ", "r", "e", "l", "e", "v", "a", "n", "t", " ", "q", "u", "e", "s", "t", "i", "o", "n", "s", " ", "a", "b", "o", "u", "t", " ", "t", "h", "e", "i", "r", " ", "e", "x", "p", "e", "r", "i", "e", "n", "c", "e", ",", " ", "s", "k", "i", "l", "l", "s", ",", " ", "a", "n", "d", " ", "p", "r", "o", "j", "e", "c", "t", "s", " ", "m", "e", "n", "t", "i", "o", "n", "e", "d", " ", "i", "n", " ", "t", "h", "e", " ", "r", "e", "s", "u", "m", "e", "\n">>

\* `- Probe deeper into specific accomplishments and responsibilities\n`
Instruction3 ==
    <<"-", " ", "P", "r", "o", "b", "e", " ", "d", "e", "e", "p", "e", "r", " ", "i", "n", "t", "o", " ", "s", "p", "e", "c", "i", "f", "i", "c", " ", "a", "c", "c", "o", "m", "p", "l", "i", "s", "h", "m", "e", "n", "t", "s", " ", "a", "n", "d", " ", "r", "e", "s", "p", "o", "n", "s", "i", "b", "i", "l", "i", "t", "i", "e", "s", "\n">>

\* `- Ask behavioral questions related to their background\n`
Instruction4 ==
    <<"-", " ", "A", "s", "k", " ", "b", "e", "h", "a", "v", "i", "o", "r", "a", "l", " ", "q", "u", "e", "s", "t", "i", "o", "n", "s", " ", "r", "e", "l", "a", "t", "e", "d", " ", "t", "o", " ", "t", "h", "e", "i", "r", " ", "b", "a", "c", "k", "g", "r", "o", "u", "n", "d", "\n">>

\* `- Assess their problem-solving abilities and technical knowledge\n`
Instruction5 ==
    <<"-", " ", "A", "s", "s", "e", "s", "s", " ", "t", "h", "e", "i", "r", " ", "p", "r", "o", "b", "l", "e", "m", "-", "s", "o", "l", "v", "i", "n", "g", " ", "a", "b", "i", "l", "i", "t", "i", "e", "s", " ", "a", "n", "d", " ", "t", "e", "c", "h", "n", "i", "c", "a", "l", " ", "k", "n", "o", "w", "l", "e", "d", "g", "e", "\n">>

\* `- Maintain a friendly but professional tone\n`
Instruction6 ==
    <<"-", " ", "M", "a", "i", "n", "t", "a", "i", "n", " ", "a", " ", "f", "r", "i", "e", "n", "d", "l", "y", " ", "b", "u", "t", " ", "p", "r", "o", "f", "e", "s", "s", "i", "o", "n", "a", "l", " ", "t", "o", "n", "e", "\n">>

\* `- Listen carefully to their answers and ask follow-up questions\n`
Instruction7 ==
    <<"-", " ", "L", "i", "s", "t", "e", "n", " ", "c", "a", "r", "e", "f", "u", "l", "l", "y", " ", "t", "o", " ", "t", "h", "e", "i", "r", " ", "a", "n", "s", "w", "e", "r", "s", " ", "a", "n", "d", " ", "a", "s", "k", " ", "f", "o", "l", "l", "o", "w", "-", "u", "p", " ", "q", "u", "e", "s", "t", "i", "o", "n", "s", "\n">>

\* `- Be encouraging and help the candidate feel comfortable\n\n`
Instruction8 ==
    <<"-", " ", "B", "e", " ", "e", "n", "c", "o", "u", "r", "a", "g", "i", "n", "g", " ", "a", "n", "d", " ", "h", "e", "l", "p", " ", "t", "h", "e", " ", "c", "a", "n", "d", "i", "d", "a", "t", "e", " ", "f", "e", "e", "l", " ", "c", "o", "m", "f", "o", "r", "t", "a", "b", "l", "e", "\n", "\n">>

CandidateNameLabel == <<"C", "A", "N", "D", "I", "D", "A", "T", "E", " ", "N", "A", "M", "E", ":", " ">>

ResumeContentLabel == <<"R", "E", "S", "U", "M", "E", " ", "C", "O", "N", "T", "E", "N", "T", ":", "\n">>

SkillsLabel == <<"K", "e", "y", " ", "s", "k", "i", "l", "l", "s", " ", "t", "o", " ", "e", "x", "p", "l", "o", "r", "e", ":", " ">>

FocusLabel == <<"F", "o", "c", "u", "s", " ", "a", "r", "e", "a", "s", ":", " ">>

\* the interview-instruction block the prompt always holds
InstructionBlock ==
    InstructionsHeader \o Instruction1 \o Instruction2 \o Instruction3
    \o Instruction4 \o Instruction5 \o Instruction6 \o Instruction7 \o Instruction8

\* Array.prototype.join(', ')
RECURSIVE join(_)
join(items) ==
    IF items = <<>> THEN <<>>
    ELSE IF Len(items) = 1 THEN items[1]
    ELSE items[1] \o <<",", " ">> \o join(Tail(items))

\* Array.prototype.slice(0, n)
slice(items, n) == SubSeq(items, 1, IF Len(items) < n THEN Len(items) ELSE n)

\* number of skills / experience phrases the prompt lists
MaxSkillsListed == 5
MaxFocusListed == 3

\* the skills line listing every skill
SkillsLine_NoSlice(skills) ==
    IF Len(skills) > 0 THEN SkillsLabel \o join(skills) \o <<"\n">> ELSE <<>>

\* if (sections.skills.length > 0) ... slice(0, 5).join(', ')
SkillsLine(skills) ==
    IF Len(skills) > 0
    THEN SkillsLabel \o join(slice(skills, MaxSkillsListed)) \o <<"\n">>
    ELSE <<>>

\* if (sections.experience.length > 0) ... slice(0, 3).join(', ')
FocusLine(experience) ==
    IF Len(experience) > 0
    THEN FocusLabel \o join(slice(experience, MaxFocusListed)) \o <<"\n">>
    ELSE <<>>

\* an optional argument: given is FALSE when it is omitted
Omitted == [given |-> FALSE, value |-> <<>>]
Given(v) == [given |-> TRUE, value |-> v]

\* if (candidateName): an omitted or empty name is falsy
NameLine(candidateName) ==
    IF candidateName.given /\ candidateName.value # <<>>
    THEN CandidateNameLabel \o candidateName.value \o <<"\n", "\n">>
    ELSE <<>>

\* the prompt around the resume text, for the sections extracted from it
Prompt(rawText, candidateName, sections) ==
    trim(Preamble \o NameLine(candidateName)
         \o ResumeContentLabel \o rawText \o <<"\n", "\n">>
         \o InstructionBlock
         \o SkillsLine(sections.skills) \o FocusLine(sections.experience))

\* the prompt with the trimmed resume text embedded
formatResumeForAI_TrimmedText(rawText, candidateName) ==
    Prompt(trim(rawText), candidateName, extractResumeSections(rawText))

formatResumeForAI(rawText, candidateName) ==
    Prompt(rawText, candidateName, extractResumeSections(rawText))

----------------------------------------------------------------------------
(* The heuristic extractor and the prompt formatter applied to bounded inputs *)

\* number of fragments a resume text of the model is made of
MaxFragments == 2

Fragments ==
    { <<"P", "y", "t", "h", "o", "n", " ">>,
      <<"a", "w", "s", " ">>,
      <<"d", "e", "v", "e", "l", "o", "p", "e", "d", " ", "J", "a", "v", "a", "S", "c", "r", "i", "p", "t", " ", "T", "y", "p", "e", "S", "c", "r", "i", "p", "t", " ", "R", "e", "a", "c", "t", " ", "S", "Q", "L", ".", " ">>,
      <<"5", " ", "y", "e", "a", "r", "s", " ", "e", "x", "p", "e", "r", "i", "e", "n", "c", "e", ".", " ">>,
      <<"3", "+", " ", "Y", "e", "a", "r", "s", " ", "o", "f", " ", "E", "x", "p", "e", "r", "i", "e", "n", "c", "e", "\n">>,
      <<"2", "0", "1", "5", " ", "y", "e", "a", "r", "s", " ", "e", "x", "p", "e", "r", "i", "e", "n", "c", "e", " ">>,
      <<"l", "e", "d", " ", "t", "e", "a", "m", "s", ".", " ", "w", "o", "r", "k", "e", "d", " ", "a", "t", " ", "A", "c", "m", "e", " ", "C", "o", "r", "p", ".", " ", "m", "a", "n", "a", "g", "e", "d", " ", "P", "y", "t", "h", "o", "n", " ", "b", "u", "d", "g", "e", "t", "s", "\n">>,
      <<"W", "o", "r", "k", "e", "d", " ", " ", "w", "i", "t", "h", " ", "i", "t", ".", " ">>,
      <<" ">> }

\* the text of the scenario of the specification
ScenarioText ==
    <<"D", "e", "v", "e", "l", "o", "p", "e", "d", " ", "s", "c", "a", "l", "a", "b", "l", "e", " ", "s", "y", "s", "t", "e", "m", "s", " ", "u", "s", "i", "n", "g", " ", "P", "y", "t", "h", "o", "n", " ", "a", "n", "d", " ", "A", "W", "S", " ", "f", "o", "r", " ", "5", " ", "y", "e", "a", "r", "s", " ", "e", "x", "p", "e", "r", "i", "e", "n", "c", "e">>

RECURSIVE FragmentTexts(_)
FragmentTexts(n) ==
    IF n = 0 THEN { <<>> }
    ELSE FragmentTexts(n - 1)
         \cup { t \o f : t \in FragmentTexts(n - 1), f \in Fragments }

\* a text whose captured phrases have the trimmed lengths 3, 4, 99 and 100,
\* one of them 100 characters long before it is trimmed
BoundaryText ==
    <<"l", "e", "d", " ", "a", "b", "c", ".", " ", "l", "e", "d", " ", "a", "b", "c", "d", ".", " ">>
    \o <<"l", "e", "d", " ", "a", "b", "c", " ", " ", ".", " ">>
    \o <<"m", "a", "n", "a", "g", "e", "d", " ">> \o Rep("x", MaxPhraseLen - 1) \o <<".", " ">>
    \o <<"m", "a", "n", "a", "g", "e", "d", " ">> \o Rep("y", MaxPhraseLen) \o <<".", " ">>
    \o <<"d", "e", "v", "e", "l", "o", "p", "e", "d", " ">> \o Rep("z", MaxPhraseLen - 1) \o <<" ", ".", " ">>

\* a text whose phrases stand in another order than their patterns, with
\* matches inside the matches of the same and of other patterns
OrderText ==
    <<"l", "e", "d", " ", "t", "e", "a", "m", "s", " ", "2", "0", "1", "5", " ", "y", "e", "a", "r", "s", " ", "e", "x", "p", "e", "r", "i", "e", "n", "c", "e", ",", " ", "m", "a", "n", "a", "g", "e", "d", " ", "l", "e", "d", " ", "p", "r", "o", "j", "e", "c", "t", "s", ".", " ", "l", "e", "d", " ", "l", "e", "d", " ", "a", "p", "i", "s", "\n", "w", "o", "r", "k", "e", "d", " ", "w", "i", "t", "h", " ", "l", "e", "d", " ", "z", "e", "p", "p", "e", "l", "i", "n", ".", " ", "d", "e", "v", "e", "l", "o", "p", "e", "d", " ", "t", "o", "o", "l", "s">>

ResumeTexts == FragmentTexts(MaxFragments) \cup { ScenarioText, BoundaryText, OrderText }

CandidateNames ==
    { Omitted, Given(<<>>), Given(<<"J", "a", "n", "e", " ", "D", "o", "e">>) }

NoSections == [skills |-> <<>>, experience |-> <<>>, education |-> <<>>]

InitExtract ==
    /\ input \in [text : ResumeTexts, name : CandidateNames]
    /\ out = [stage |-> "init", sections |-> NoSections, prompt |-> <<>>]
    /\ file = [path |-> <<>>, status |-> "missing", size |-> 0]
    /\ call = Idle
    /\ validated = FALSE
    /\ calls = 0

ExtractResumeSections ==
    /\ out.stage = "init"
    /\ out' = [out EXCEPT !.stage = "sections",
                          !.sections = extractResumeSections(input.text)]
    /\ UNCHANGED <<file, call, validated, calls, input>>

FormatResumeForAI ==
    /\ out.stage = "init"
    /\ out' = [out EXCEPT !.stage = "formatted",
                          !.sections = extractResumeSections(input.text),
                          !.prompt = formatResumeForAI(input.text, input.name)]
    /\ UNCHANGED <<file, call, validated, calls, input>>

NextExtract ==
    \/ ExtractResumeSections
    \/ FormatResumeForAI

SpecExtract == InitExtract /\ [][NextExtract]_vars

----------------------------------------------------------------------------
(* extractContactInfo *)

Letters ==
    { UpperCase[i] : i \in 1..Len(UpperCase) } \cup { LowerCase[i] : i \in 1..Len(LowerCase) }

\* [a-zA-Z0-9._%+-]
LocalChars == Letters \cup Digits \cup {".", "_", "%", "+", "-"}

\* [a-zA-Z0-9.-]
DomainChars == Letters \cup Digits \cup {".", "-"}

\* [-.\s]
PhoneSeparators == {"-", "."} \cup WhitespaceChars

\* [\w-]
ProfileChars == Letters \cup Digits \cup {"_", "-"}

\* \.[a-zA-Z]{2,} after the domain: dots are the dots the domain can give back
\* to, the last of them is taken and the letters after it
EmailEnd(t, dots) ==
    IF dots = {} THEN 0 ELSE SkipIn(t, Greatest(dots) + 1, Letters) - 1

\* the dots of the domain run (it ends before position d) that have a
\* character of the domain before them and two letters after them
EmailDots(t, a, d) ==
    { k \in (a + 2)..(d - 1) :
        /\ t[k] = "."
        /\ CharAt(t, k + 1) \in Letters
        /\ CharAt(t, k + 2) \in Letters }

\* the e-mail pattern from the end a of its local part on
EmailAfterLocal(t, i, a) ==
    IF a = i \/ CharAt(t, a) # "@" THEN 0
    ELSE EmailEnd(t, EmailDots(t, a, SkipIn(t, a + 1, DomainChars)))

\* /[a-zA-Z0-9._%+-]+@[a-zA-Z0-9.-]+\.[a-zA-Z]{2,}/ tried at position i: the
\* position of the last character of the match, 0 when there is none. The
\* domain takes its longest run and gives back to the last dot that has a
\* character of the domain before it and two letters after it.
EmailMatchAt(t, i) == EmailAfterLocal(t, i, SkipIn(t, i, LocalChars))

\* \d{n} stands in t at position p
DigitsAt(t, p, n) == \A j \in 0..(n - 1) : CharAt(t, p + j) \in Digits

\* an optional character of cs at position p: the position after it
SkipOptional(t, p, cs) == IF CharAt(t, p) \in cs THEN p + 1 ELSE p

\* \d{4} tried at position p, at the end of the phone pattern
PhoneLastDigits(t, p) == IF DigitsAt(t, p, 4) THEN p + 3 ELSE 0

\* \d{3}[-.\s]?\d{4} tried at position p
PhoneSecondGroup(t, p) ==
    IF DigitsAt(t, p, 3)
    THEN PhoneLastDigits(t, SkipOptional(t, p + 3, PhoneSeparators))
    ELSE 0

\* \d{3}\)?[-.\s]?\d{3}[-.\s]?\d{4} tried at position p
PhoneFirstGroup(t, p) ==
    IF DigitsAt(t, p, 3)
    THEN PhoneSecondGroup(t, SkipOptional(t, SkipOptional(t, p + 3, {")"}), PhoneSeparators))
    ELSE 0

\* \(?\d{3}\)?[-.\s]?\d{3}[-.\s]?\d{4} tried at position p
PhoneBodyAt(t, p) == PhoneFirstGroup(t, SkipOptional(t, p, {"("}))

\* \d{n}[-.\s]? and the rest of the phone pattern tried at position q
PhoneCodeAt(t, q, n) ==
    IF DigitsAt(t, q, n)
    THEN PhoneBodyAt(t, SkipOptional(t, q + n, PhoneSeparators))
    ELSE 0

\* the phone pattern with a country code of n digits tried at position i
PhoneWithCodeAt(t, i, n) == PhoneCodeAt(t, SkipOptional(t, i, {"+"}), n)

\* the first of four attempts that matched
FirstMatched(a, b, c, d) ==
    IF a > 0 THEN a ELSE IF b > 0 THEN b ELSE IF c > 0 THEN c ELSE d

\* /(?:\+?\d{1,3}[-.\s]?)?\(?\d{3}\)?[-.\s]?\d{3}[-.\s]?\d{4}/ tried at
\* position i: the country code is tried with three, two and one digits, then
\* left out
PhoneMatchAt(t, i) ==
    FirstMatched(PhoneWithCodeAt(t, i, 3), PhoneWithCodeAt(t, i, 2),
                 PhoneWithCodeAt(t, i, 1), PhoneBodyAt(t, i))

\* [\w-]+ tried at position p, at the end of the profile pattern
ProfileEnd(t, p) == IF CharAt(t, p) \in ProfileChars THEN SkipIn(t, p, ProfileChars) - 1 ELSE 0

\* /linkedin\.com\/in\/[\w-]+/i tried at position i
LinkedinMatchAt(t, i) ==
    IF StartsAtIgnoreCase(t, i, <<"l", "i", "n", "k", "e", "d", "i", "n", ".", "c", "o", "m", "/", "i", "n", "/">>)
    THEN ProfileEnd(t, i + 16)
    ELSE 0

ContactMatchAt(pattern, t, i) ==
    CASE pattern = "email" -> EmailMatchAt(t, i)
      [] pattern = "phone" -> PhoneMatchAt(t, i)
      [] pattern = "linkedin" -> LinkedinMatchAt(t, i)

\* the positions from i on at which the pattern matches
ContactStarts(pattern, t, i) == { j \in i..Len(t) : ContactMatchAt(pattern, t, j) > 0 }

\* text.match(pattern) || [] with the g flag, from position i on: the matched
\* substrings, left to right, each search starting after the previous match
RECURSIVE ContactMatchesFrom(_, _, _)

\* the match from position j to position last, then the matches after it
ContactMatchThenRest(pattern, t, j, last) ==
    <<SubSeq(t, j, last)>> \o ContactMatchesFrom(pattern, t, last + 1)

\* the match that starts at position j, then the matches after it
ContactMatchesAt(pattern, t, j) ==
    ContactMatchThenRest(pattern, t, j, ContactMatchAt(pattern, t, j))

\* the matches, the first of them starting at the least position of starts
ContactMatchesAmong(pattern, t, starts) ==
    IF starts = {} THEN <<>> ELSE ContactMatchesAt(pattern, t, Least(starts))

ContactMatchesFrom(pattern, t, i) ==
    ContactMatchesAmong(pattern, t, ContactStarts(pattern, t, i))

\* the list as it is, duplicates kept
Unique_KeepAll(items) == items

\* head, and item after it unless head holds it
AddUnique(head, item) ==
    IF \E k \in 1..Len(head) : head[k] = item THEN head ELSE Append(head, item)

\* Array.from(new Set(items)): the distinct items in order of first occurrence
RECURSIVE Unique(_)
Unique(items) ==
    IF items = <<>> THEN <<>>
    ELSE AddUnique(Unique(SubSeq(items, 1, Len(items) - 1)), items[Len(items)])

\* linkedinMatch ? linkedinMatch[0] : undefined
FirstOrUndefined(matches) == IF matches # <<>> THEN Given(matches[1]) ELSE Omitted

extractContactInfo(text) ==
    [emails   |-> Unique(ContactMatchesFrom("email", text, 1)),
     phones   |-> Unique(ContactMatchesFrom("phone", text, 1)),
     linkedin |-> FirstOrUndefined(ContactMatchesFrom("linkedin", text, 1))]

----------------------------------------------------------------------------
(* Specification of extractContactInfo: the function applied to a text *)

\* number of fragments a text with contact details is made of
MaxContactParts == 3

ContactParts ==
    { <<"a", "@", "b", ".", "c", "o", "m">>,
      <<" ", "o", "r", " ">>,
      <<"R", "e", "a", "c", "h", " ", "m", "e", " ", "a", "t", " ">>,
      <<"A", "@", "b", ".", "c", "o", "m", " ">>,
      <<"5", "5", "5", "-", "1", "2", "3", "-", "4", "5", "6", "7">>,
      <<"(", "5", "5", "5", ")", " ", "1", "2", "3", "-", "4", "5", "6", "7", " ">>,
      <<"+", "1", " ">>,
      <<"l", "i", "n", "k", "e", "d", "i", "n", ".", "c", "o", "m", "/", "i", "n", "/", "j", "a", "n", "e", " ">> }

\* "Reach me at a@b.com or a@b.com"
ContactScenarioText ==
    <<"R", "e", "a", "c", "h", " ", "m", "e", " ", "a", "t", " ", "a", "@", "b", ".", "c", "o", "m", " ", "o", "r", " ", "a", "@", "b", ".", "c", "o", "m">>

RECURSIVE ContactPartTexts(_)
ContactPartTexts(n) ==
    IF n = 0 THEN { <<>> }
    ELSE ContactPartTexts(n - 1)
         \cup { t \o f : t \in ContactPartTexts(n - 1), f \in ContactParts }

ContactTexts == ContactPartTexts(MaxContactParts) \cup { ContactScenarioText }

NoContact == [emails |-> <<>>, phones |-> <<>>, linkedin |-> Omitted]

InitContact ==
    /\ input \in [text : ContactTexts]
    /\ out = [stage |-> "init", contact |-> NoContact]
    /\ file = [path |-> <<>>, status |-> "missing", size |-> 0]
    /\ call = Idle
    /\ validated = FALSE
    /\ calls = 0

ExtractContactInfo ==
    /\ out.stage = "init"
    /\ out' = [stage |-> "contact", contact |-> extractContactInfo(input.text)]
    /\ UNCHANGED <<file, call, validated, calls, input>>

NextContact == ExtractContactInfo

SpecContact == InitContact /\ [][NextContact]_vars

----------------------------------------------------------------------------
(* sanitizeResumeText *)

\* \w
WordChars == Letters \cup Digits \cup {"_"}

\* the characters the last replace keeps:
\* \w \s . , ! ? @ # $ % ^ & * ( ) _ + - = [ ] { } ; ' : " \ | < > /
AllowedChars ==
    WordChars \cup WhitespaceChars
    \cup {".", ",", "!", "?", "@", "#", "$", "%", "^", "&", "*", "(", ")", "+", "-", "=",
          "[", "]", "{", "}", ";", "'", ":", "\"", "\\", "|", "<", ">", "/"}

\* "</script>"
ScriptClose == <<"<", "/", "s", "c", "r", "i", "p", "t", ">">>

\* "<script>"
ScriptOpen == <<"<", "s", "c", "r", "i", "p", "t", ">">>

\* the end of the script element whose "</script>" can start at the positions
\* closes: it ends with the first of them
ScriptEnd(closes) == IF closes = {} THEN 0 ELSE Least(closes) + Len(ScriptClose) - 1

\* the positions from p on at which "</script>" stands, letter case ignored
ScriptCloses(t, p) == { c \in p..Len(t) : StartsAtIgnoreCase(t, c, ScriptClose) }

\* /<script\b[^<]*(?:(?!<\/script>)<[^<]*)*<\/script>/i tried at position i:
\* the position of the last character of the match, 0 when there is none.
\* After "<script" and a word boundary the pattern runs over every character
\* up to the first "</script>" (letter case ignored) and ends with it.
ScriptMatchAt(t, i) ==
    IF /\ StartsAtIgnoreCase(t, i, <<"<", "s", "c", "r", "i", "p", "t">>)
       /\ CharAt(t, i + 7) \notin WordChars
    THEN ScriptEnd(ScriptCloses(t, i + 7))
    ELSE 0

\* the tag from position i to its ">" at position e
TagEnd(t, i, e) == IF e > i + 1 /\ e <= Len(t) THEN e ELSE 0

\* /<[^>]+>/ tried at position i
TagMatchAt(t, i) ==
    IF CharAt(t, i) = "<" THEN TagEnd(t, i, SkipTo(t, i + 1, {">"})) ELSE 0

MarkupMatchAt(pattern, t, i) ==
    CASE pattern = "script" -> ScriptMatchAt(t, i)
      [] pattern = "tag" -> TagMatchAt(t, i)

\* the positions from i on at which the pattern matches
MarkupStarts(pattern, t, i) == { j \in i..Len(t) : MarkupMatchAt(pattern, t, j) > 0 }

\* t.replace(pattern, '') with the g flag, from position i on
RECURSIVE RemoveMatchesFrom(_, _, _)

\* the text from i to the match that starts at position j, and what is left
\* of the text after that match
RemoveMatchAt(pattern, t, i, j) ==
    SubSeq(t, i, j - 1) \o RemoveMatchesFrom(pattern, t, MarkupMatchAt(pattern, t, j) + 1)

\* what is left of the text from i on, the first match starting at the least
\* position of starts
RemoveAmong(pattern, t, i, starts) ==
    IF starts = {} THEN SubSeq(t, i, Len(t)) ELSE RemoveMatchAt(pattern, t, i, Least(starts))

RemoveMatchesFrom(pattern, t, i) == RemoveAmong(pattern, t, i, MarkupStarts(pattern, t, i))

\* script elements left in place
RemoveScripts_None(t) == t

\* .replace(/<script\b[^<]*(?:(?!<\/script>)<[^<]*)*<\/script>/gi, '')
RemoveScripts(t) == RemoveMatchesFrom("script", t, 1)

\* .replace(/<[^>]+>/g, '')
RemoveTags(t) == RemoveMatchesFrom("tag", t, 1)

\* .replace(/[^\w\s.,!?@#$%^&*()_+\-=\[\]{};':"\\|<>\/\n]/g, '')
RemoveDisallowed(t) ==
    LET Allowed(c) == c \in AllowedChars
    IN  SelectSeq(t, Allowed)

sanitizeResumeText(text) == trim(RemoveDisallowed(RemoveTags(RemoveScripts(text))))

----------------------------------------------------------------------------
(* Specification of sanitizeResumeText: the function applied to a text t and
   to t behind a script element with body s *)

\* number of fragments the body of the script element is made of
MaxBodyParts == 2

BodyParts ==
    { <<"a", "l", "e", "r", "t", "(", "1", ")">>,
      <<"<", "/", "S", "C", "R", "I", "P", "T", ">">>,
      <<"<", "/", "s", "c", "r", "i", "p", "t", ">">>,
      <<"<", "b">>,
      <<">", "~", " ">>,
      <<"<", "/", "s", "c", "r", "i", "p", "t">> }

RECURSIVE ScriptBodiesOf(_)
ScriptBodiesOf(n) ==
    IF n = 0 THEN { <<>> }
    ELSE ScriptBodiesOf(n - 1)
         \cup { s \o f : s \in ScriptBodiesOf(n - 1), f \in BodyParts }

ScriptBodies == ScriptBodiesOf(MaxBodyParts)

FollowingTexts ==
    { <<>>,
      <<"H", "e", "l", "l", "o">>,
      <<" ", "H", "e", "l", "l", "o", " ">>,
      <<"<", "i", ">", "h", "i", "<", "/", "i", ">">>,
      <<"<", "s", "c", "r", "i", "p", "t", ">", "y", "<", "/", "s", "c", "r", "i", "p", "t", ">", "z">>,
      <<"~", "a">>,
      <<"<", "/", "s", "c", "r", "i", "p", "t", ">">>,
      <<">", " ", "<">> }

\* '<script>' + s + '</script>' + t
ScriptElementThen(s, t) == ScriptOpen \o s \o ScriptClose \o t

InitSanitize ==
    /\ input \in [s : ScriptBodies, t : FollowingTexts]
    /\ out = [stage |-> "init", text |-> <<>>]
    /\ file = [path |-> <<>>, status |-> "missing", size |-> 0]
    /\ call = Idle
    /\ validated = FALSE
    /\ calls = 0

\* sanitizeResumeText('<script>' + s + '</script>' + t)
SanitizeScriptElement ==
    /\ out.stage = "init"
    /\ out' = [stage |-> "element",
               text |-> sanitizeResumeText(ScriptElementThen(input.s, input.t))]
    /\ UNCHANGED <<file, call, validated, calls, input>>

\* sanitizeResumeText(t)
SanitizeText ==
    /\ out.stage = "init"
    /\ out' = [stage |-> "text", text |-> sanitizeResumeText(input.t)]
    /\ UNCHANGED <<file, call, validated, calls, input>>

NextSanitize ==
    \/ SanitizeScriptElement
    \/ SanitizeText

SpecSanitize == InitSanitize /\ [][NextSanitize]_vars

----------------------------------------------------------------------------
(* Concurrent invocations of parseResume on different files: each invocation
   has its own position, its own buffer and its own strings; the steps of the
   two interleave at the suspension points (file read, extractor call) *)

Invocations == {1, 2}

ConcurrentPaths ==
    { <<"r", ".", "p", "d", "f">>,
      <<"u", "/", "r", ".", "d", "o", "c", "x">>,
      <<"r", ".", "d", "o", "c">> }

\* what the library makes of the bytes of a document
Documents ==
    { [throws |-> "none", text |-> <<>>],
      [throws |-> "none", text |-> Rep("a", MinChars - 1)],
      [throws |-> "none", text |-> <<" ">> \o Rep("a", 24) \o <<" ", " ">> \o Rep("b", 25) \o <<"\n">>],
      [throws |-> "InvalidPDFException", text |-> <<>>] }

NoDocument == [throws |-> "TypeError", text |-> <<>>]

\* the files of the run: a file that can be read holds a document
StoredFiles ==
    { [path |-> p, status |-> "ok", doc |-> d] : p \in ConcurrentPaths, d \in Documents }
    \cup { [path |-> p, status |-> st, doc |-> NoDocument] :
              p \in ConcurrentPaths, st \in FileStatus \ {"ok"} }

\* how fs.readFile completes on file f
ReadOutcome(f) ==
    IF f.status = "missing" THEN "ENOENT"
    ELSE IF f.status = "noaccess" THEN "EACCES"
    ELSE "ok"

\* one buffer for all invocations: the extractor is handed the bytes read last
\* by any of them
BufferOf_Shared(cs, i) ==
    IF \E j \in Invocations \ {i} : cs[j].buffer # NoDocument
    THEN cs[CHOOSE j \in Invocations \ {i} : cs[j].buffer # NoDocument].buffer
    ELSE cs[i].buffer

\* const dataBuffer = await fs.readFile(filePath) ... pdfParse(dataBuffer):
\* the extractor of invocation i is handed the buffer invocation i has read
BufferOf(cs, i) == cs[i].buffer

\* parseResume(f.path) run alone, from call to outcome
Alone(f) ==
    LET started == ParseResumeStart(f.path)
        read    == ParseResumeReadDone(started, ReadOutcome(f))
    IN  IF started.pc # "readFile" THEN started
        ELSE IF read.pc # "library" THEN read
        ELSE ParseResumeLibraryDone(read, f.doc)

InitConcurrent ==
    /\ file \in { fs \in [Invocations -> StoredFiles] : fs[1].path # fs[2].path }
    /\ call = [i \in Invocations |-> [inv |-> Idle, buffer |-> NoDocument]]
    /\ validated = FALSE
    /\ calls = 0
    /\ input = <<>>
    /\ out = NoOut

ConcurrentCall(i) ==
    /\ call[i].inv.pc = "idle"
    /\ call' = [call EXCEPT ![i].inv = ParseResumeStart(file[i].path)]
    /\ UNCHANGED <<file, validated, calls, input, out>>

ConcurrentReadDone(i) ==
    /\ call[i].inv.pc = "readFile"
    /\ call' = [call EXCEPT ![i].inv = ParseResumeReadDone(@, ReadOutcome(file[i])),
                            ![i].buffer = IF ReadOutcome(file[i]) = "ok"
                                          THEN file[i].doc ELSE @]
    /\ UNCHANGED <<file, validated, calls, input, out>>

ConcurrentLibraryDone(i) ==
    /\ call[i].inv.pc = "library"
    /\ call' = [call EXCEPT ![i].inv = ParseResumeLibraryDone(@, BufferOf(call, i))]
    /\ UNCHANGED <<file, validated, calls, input, out>>

NextConcurrent ==
    \E i \in Invocations :
        \/ ConcurrentCall(i)
        \/ ConcurrentReadDone(i)
        \/ ConcurrentLibraryDone(i)

SpecConcurrent == InitConcurrent /\ [][NextConcurrent]_vars

----------------------------------------------------------------------------
(* The upload-resume route *)

\* MAX_FILE_SIZE of the route
MAX_FILE_SIZE == 10 * 1024 * 1024

PdfMime == "application/pdf"
DocxMime == "application/vnd.openxmlformats-officedocument.wordprocessingml.document"
DocMime == "application/msword"

ALLOWED_MIME_TYPES == {PdfMime, DocxMime, DocMime}

\* the allow-list without the legacy format
ALLOWED_EXTENSIONS_NoDoc ==
    { <<".", "p", "d", "f">>, <<".", "d", "o", "c", "x">> }

ALLOWED_EXTENSIONS ==
    { <<".", "p", "d", "f">>, <<".", "d", "o", "c", "x">>, <<".", "d", "o", "c">> }

\* longest file name the route accepts
MaxNameLength == 255

\* longest name sanitizeFilename returns
MaxSanitizedLength == 200

\* the positions from i on at which ".." stands
DotDotStarts(t, i) == { j \in i..(Len(t) - 1) : t[j] = "." /\ t[j + 1] = "." }

\* .replace(/\.\./g, '') from position i on
RECURSIVE RemoveDotDotFrom(_, _)

\* what is left of the text from i on, the first ".." starting at the least
\* position of starts
RemoveDotDotAmong(t, i, starts) ==
    IF starts = {} THEN SubSeq(t, i, Len(t))
    ELSE SubSeq(t, i, Least(starts) - 1) \o RemoveDotDotFrom(t, Least(starts) + 2)

RemoveDotDotFrom(t, i) == RemoveDotDotAmong(t, i, DotDotStarts(t, i))

\* [a-zA-Z0-9\s._-]
FilenameChars == Letters \cup Digits \cup WhitespaceChars \cup {".", "_", "-"}

\* .replace(/[\/\\]/g, '')
RemoveSlashes(t) ==
    LET NotSlash(c) == c \notin {"/", "\\"}
    IN  SelectSeq(t, NotSlash)

\* .replace(/[^a-zA-Z0-9\s._-]/g, '')
RemoveSpecial(t) ==
    LET Kept(c) == c \in FilenameChars
    IN  SelectSeq(t, Kept)

\* String.prototype.substring(0, n)
substring(s, n) == SubSeq(s, 1, IF Len(s) < n THEN Len(s) ELSE n)

sanitizeFilename(filename) ==
    substring(
        trim(CollapseWhitespace(RemoveSpecial(RemoveSlashes(RemoveDotDotFrom(filename, 1))))),
        MaxSanitizedLength)

\* a response of a route: success is "true", "false" or "" (not in the body)
Response(status, success, error) ==
    [status |-> status, success |-> success, error |-> error,
     fileId |-> <<>>, filename |-> <<>>, filepath |-> <<>>,
     resumeContext |-> Omitted, candidateName |-> Omitted, isMock |-> FALSE]

NoResponse == Response(0, "", "")

NoFileMessage == "No file uploaded. Please select a resume file."
NotAFileMessage == "Invalid file format"
EmptyFileMessage == "File is empty. Please upload a valid resume."
TooLargeMessage == "File size exceeds maximum limit of 10MB. Please upload a smaller file."
MimeMessage == "Invalid file type. Only PDF and DOCX files are allowed."
UploadExtensionMessage == "Invalid file extension. Only .pdf, .docx, and .doc files are allowed."
NameTooLongMessage == "Filename is too long. Please rename the file."
MkdirMessage == "Server configuration error. Please try again later."
EmptyBufferMessage == "File appears to be empty or corrupted."
WriteMessage == "Failed to save file. Please try again."
BodySizeMessage == "File is too large. Maximum size is 10MB."
UnexpectedMessage == "An unexpected error occurred during upload. Please try again."

\* the name the upload is stored under: `${fileId}${fileExtension}`
UniqueFilename(fileId, name) == fileId \o toLowerCase(extname(name))

\* the checks of the handler without the one on the length of the name
UploadCheck_NoLength(req) ==
    IF req.kind = "none" THEN NoFileMessage
    ELSE IF req.kind # "file" THEN NotAFileMessage
    ELSE IF req.size = 0 THEN EmptyFileMessage
    ELSE IF req.size > MAX_FILE_SIZE THEN TooLargeMessage
    ELSE IF req.type \notin ALLOWED_MIME_TYPES THEN MimeMessage
    ELSE IF toLowerCase(extname(req.name)) \notin ALLOWED_EXTENSIONS THEN UploadExtensionMessage
    ELSE ""

\* the checks of the request in the order of the handler: the message of the
\* first one that fails, "" when all pass
UploadCheck(req) ==
    IF req.kind = "none" THEN NoFileMessage
    ELSE IF req.kind # "file" THEN NotAFileMessage
    ELSE IF req.size = 0 THEN EmptyFileMessage
    ELSE IF req.size > MAX_FILE_SIZE THEN TooLargeMessage
    ELSE IF req.type \notin ALLOWED_MIME_TYPES THEN MimeMessage
    ELSE IF toLowerCase(extname(req.name)) \notin ALLOWED_EXTENSIONS THEN UploadExtensionMessage
    ELSE IF Len(req.name) > MaxNameLength THEN NameTooLongMessage
    ELSE ""

\* POST of upload-resume on request req, with fileId the id uuidv4 returns and
\* env how request.formData, mkdir and writeFile complete: the response, and
\* whether the upload directory was made and the file was written. The buffer
\* holds the size bytes of the file. uploadedAt (the time) is left out of the
\* response.
UploadPOST(req, fileId, env) ==
    LET none == [made |-> FALSE, wrote |-> FALSE, response |-> NoResponse]
    IN  IF env.form = "body size"
        THEN [none EXCEPT !.response = Response(413, "false", BodySizeMessage)]
        ELSE IF env.form # "ok"
        THEN [none EXCEPT !.response = Response(500, "false", UnexpectedMessage)]
        ELSE IF UploadCheck(req) # ""
        THEN [none EXCEPT !.response = Response(400, "false", UploadCheck(req))]
        ELSE IF env.mkdir # "ok"
        THEN [none EXCEPT !.response = Response(500, "false", MkdirMessage)]
        ELSE IF req.size = 0
        THEN [made |-> TRUE, wrote |-> FALSE,
              response |-> Response(400, "false", EmptyBufferMessage)]
        ELSE IF env.write # "ok"
        THEN [made |-> TRUE, wrote |-> FALSE,
              response |-> Response(500, "false", WriteMessage)]
        ELSE [made |-> TRUE, wrote |-> TRUE,
              response |-> [Response(200, "true", "") EXCEPT
                               !.fileId = fileId,
                               !.filename = sanitizeFilename(req.name),
                               !.filepath = UniqueFilename(fileId, req.name)]]

----------------------------------------------------------------------------
(* The start-interview route *)

FileIdRequiredMessage == "File ID is required"
ResumeNotFoundMessage == "Resume not found"
StartFailedMessage == "Failed to start interview"
SignedUrlFailedMessage == "Failed to get ElevenLabs signed URL: ${signedUrlResponse.status} - ${error}"

\* String.prototype.startsWith
startsWith(s, p) == StartsAt(s, 1, p)

\* "uploads/": the upload directory in front of a stored name
UploadDir == <<"u", "p", "l", "o", "a", "d", "s", "/">>

\* the entries files.find(f => f.startsWith(fileId)) can return: readdir
\* lists the directory in no fixed order, so the first match is any match
FindResumeFile(entries, fileId) == { e \in entries : startsWith(e.name, fileId) }

\* a request of start-interview in progress
IdleRequest ==
    [route |-> "none", pc |-> "idle", inv |-> Idle, found |-> <<>>,
     fetches |-> 0, context |-> <<>>]

\* catch block of the handler
StartCatch(c) == [c EXCEPT !.pc = "responded"]

\* the request for the signed URL sent whatever parseResume did
AfterParse_FetchAnyway(c, inv, candidateName) ==
    IF inv.pc = "returned"
    THEN [c EXCEPT !.inv = inv, !.pc = "fetch", !.fetches = @ + 1,
                   !.context = formatResumeForAI(inv.text, candidateName)]
    ELSE IF inv.pc = "thrown" THEN StartCatch([c EXCEPT !.inv = inv, !.fetches = @ + 1])
    ELSE [c EXCEPT !.inv = inv]

\* parseResume has returned or thrown in request c: format the context and
\* send the request for the signed URL, or leave through the catch block
AfterParse(c, inv, candidateName) ==
    IF inv.pc = "returned"
    THEN [c EXCEPT !.inv = inv, !.pc = "fetch", !.fetches = @ + 1,
                   !.context = formatResumeForAI(inv.text, candidateName)]
    ELSE IF inv.pc = "thrown" THEN StartCatch([c EXCEPT !.inv = inv])
    ELSE [c EXCEPT !.inv = inv]

\* the response of a request that has left through the catch block
StartCatchResponse == Response(500, "", StartFailedMessage)

----------------------------------------------------------------------------
(* The two routes on one upload directory: uploads, then interviews started
   on what is stored *)

\* number of upload requests of a run
MaxUploads == 2

\* the ids uuidv4 can return
UploadIds == { <<"a", "b">>, <<"a", "c">>, <<"b", "c">> }

\* uuidv4 returns an id no stored file has
FreshIds(entries) == { id \in UploadIds : \A e \in entries : ~startsWith(e.name, id) }

UploadNames ==
    { <<"c", "v", ".", "d", "o", "c">>,
      <<"C", "V", ".", "D", "o", "c">>,
      <<"c", "v", ".", "p", "d", "f">>,
      <<"c", "v", ".", "d", "o", "c", "x">>,
      <<"c", "v", ".", "t", "x", "t">>,
      Rep("a", MaxNameLength - 3) \o <<".", "p", "d", "f">> }

\* what the library makes of the bytes of an upload
UploadedDocuments ==
    { [throws |-> "none", text |-> <<" ">> \o Rep("a", 24) \o <<" ", " ">> \o Rep("b", 25) \o <<"\n">>],
      [throws |-> "InvalidPDFException", text |-> <<>>] }

\* the requests every check accepts: each stored name with each document, and
\* the legacy format with each allowed type and size
AcceptableUploads ==
    { [route |-> "upload", kind |-> "file", size |-> 1, type |-> PdfMime, name |-> nm, doc |-> d] :
          nm \in { u \in UploadNames :
                     Len(u) <= MaxNameLength /\ toLowerCase(extname(u)) \in ALLOWED_EXTENSIONS },
          d \in UploadedDocuments }
    \cup { [route |-> "upload", kind |-> "file", size |-> n, type |-> t,
            name |-> <<"c", "v", ".", "d", "o", "c">>,
            doc |-> [throws |-> "InvalidPDFException", text |-> <<>>]] :
              n \in {1, MAX_FILE_SIZE}, t \in ALLOWED_MIME_TYPES }

\* requests with no file, with something that is not a file, and with a file
\* that fails one or several checks
UploadRequests ==
    AcceptableUploads
    \cup { [route |-> "upload", kind |-> k, size |-> 0, type |-> "", name |-> <<>>, doc |-> NoDocument] :
              k \in {"none", "string"} }
    \cup { [route |-> "upload", kind |-> "file", size |-> n, type |-> t, name |-> nm,
            doc |-> [throws |-> "InvalidPDFException", text |-> <<>>]] :
              n \in {0, 1, MAX_FILE_SIZE + 1},
              t \in {PdfMime, "text/plain"},
              nm \in { <<"c", "v", ".", "p", "d", "f">>, <<"c", "v", ".", "t", "x", "t">>,
                       Rep("a", MaxNameLength - 4) \o <<".", "p", "d", "f">>,
                       Rep("a", MaxNameLength - 3) \o <<".", "p", "d", "f">> } }

\* how request.formData, mkdir and writeFile can complete: all of them, or
\* all but one
UploadEnvs ==
    { [form |-> "ok", mkdir |-> "ok", write |-> "ok"],
      [form |-> "body size", mkdir |-> "ok", write |-> "ok"],
      [form |-> "aborted", mkdir |-> "ok", write |-> "ok"],
      [form |-> "ok", mkdir |-> "EACCES", write |-> "ok"],
      [form |-> "ok", mkdir |-> "ok", write |-> "ENOSPC"] }

StartRequests ==
    { [route |-> "start", json |-> "ok", fileId |-> id, candidateName |-> n] :
          id \in UploadIds \cup { <<>>, <<"a">>, <<"a", "b", ".", "d">> },
          n \in { Omitted, Given(<<"J", "a", "n", "e", " ", "D", "o", "e">>) } }
    \cup { [route |-> "start", json |-> "throws", fileId |-> <<>>, candidateName |-> Omitted] }

\* how fs.readdir can complete on the upload directory
ReaddirOutcomes(dir) == IF dir.exists THEN {"ok", "EIO"} ELSE {"ENOENT"}

\* how the request for the signed URL can complete
FetchOutcomes == {"ok", "401", "500", "throws"}

NoOutcome == [response |-> NoResponse, wrote |-> FALSE]

InitRoutes ==
    /\ file = [exists |-> FALSE, entries |-> {}]
    /\ call = IdleRequest
    /\ input = [route |-> "none"]
    /\ out = NoOutcome
    /\ calls = 0
    /\ validated = FALSE

\* the upload directory after a request whose handler did r
DirectoryAfter(dir, req, fileId, r) ==
    [exists  |-> dir.exists \/ r.made,
     entries |-> IF r.wrote
                 THEN dir.entries \cup { [name |-> UniqueFilename(fileId, req.name),
                                          doc  |-> req.doc] }
                 ELSE dir.entries]

\* what the client is left with after a request whose handler did r
OutcomeOf(r) == [response |-> r.response, wrote |-> r.wrote]

\* POST /api/upload-resume
UploadResume ==
    /\ call.pc \in {"idle", "responded"}
    /\ calls < MaxUploads
    /\ \E req \in UploadRequests, fileId \in FreshIds(file.entries), env \in UploadEnvs :
          /\ input' = req
          /\ out' = OutcomeOf(UploadPOST(req, fileId, env))
          /\ file' = DirectoryAfter(file, req, fileId, UploadPOST(req, fileId, env))
    /\ call' = [IdleRequest EXCEPT !.route = "upload", !.pc = "responded"]
    /\ calls' = calls + 1
    /\ UNCHANGED validated

\* POST /api/start-interview up to its first suspension point inside
\* parseResume, or to its response
StartInterview ==
    /\ call.pc \in {"idle", "responded"}
    /\ \E req \in StartRequests, listed \in ReaddirOutcomes(file) :
          LET c       == [IdleRequest EXCEPT !.route = "start", !.pc = "parsing"]
              matches == FindResumeFile(file.entries, req.fileId)
          IN  /\ input' = req
              /\ IF req.json # "ok"
                 THEN /\ call' = StartCatch(c)
                      /\ out' = [NoOutcome EXCEPT !.response = StartCatchResponse]
                 ELSE IF req.fileId = <<>>
                 THEN /\ call' = [c EXCEPT !.pc = "responded"]
                      /\ out' = [NoOutcome EXCEPT !.response = Response(400, "", FileIdRequiredMessage)]
                 ELSE IF listed # "ok"
                 THEN /\ call' = StartCatch(c)
                      /\ out' = [NoOutcome EXCEPT !.response = StartCatchResponse]
                 ELSE IF matches = {}
                 THEN /\ call' = [c EXCEPT !.pc = "responded"]
                      /\ out' = [NoOutcome EXCEPT !.response = Response(404, "", ResumeNotFoundMessage)]
                 ELSE \E resumeFile \in matches :
                        /\ call' = AfterParse([c EXCEPT !.found = resumeFile],
                                              ParseResumeStart(UploadDir \o resumeFile.name),
                                              req.candidateName)
                        /\ out' = IF call'.pc = "responded"
                                  THEN [NoOutcome EXCEPT !.response = StartCatchResponse]
                                  ELSE NoOutcome
    /\ UNCHANGED <<file, validated, calls>>

\* fs.readFile of parseResume completes inside the request
StartReadDone ==
    /\ call.pc = "parsing"
    /\ call.inv.pc = "readFile"
    /\ \E r \in {"ok", "EIO"} :
          call' = AfterParse(call, ParseResumeReadDone(call.inv, r), input.candidateName)
    /\ out' = IF call'.pc = "responded"
              THEN [NoOutcome EXCEPT !.response = StartCatchResponse]
              ELSE NoOutcome
    /\ UNCHANGED <<file, validated, calls, input>>

\* the extractor call of parseResume completes inside the request
StartLibraryDone ==
    /\ call.pc = "parsing"
    /\ call.inv.pc = "library"
    /\ call' = AfterParse(call, ParseResumeLibraryDone(call.inv, call.found.doc),
                          input.candidateName)
    /\ out' = IF call'.pc = "responded"
              THEN [NoOutcome EXCEPT !.response = StartCatchResponse]
              ELSE NoOutcome
    /\ UNCHANGED <<file, validated, calls, input>>

\* the request for the signed URL completes. conversationId, signedUrl and
\* agentId (a time, a random number, the environment) are left out of the
\* response.
StartFetchDone ==
    /\ call.pc = "fetch"
    /\ \E f \in FetchOutcomes :
          out' = [NoOutcome EXCEPT !.response =
                    CASE f = "ok" ->
                           [Response(200, "true", "") EXCEPT
                               !.resumeContext = Given(call.context),
                               !.candidateName = input.candidateName]
                      [] f = "401" -> [Response(200, "true", "") EXCEPT !.isMock = TRUE]
                      [] f = "500" -> Response(500, "", SignedUrlFailedMessage)
                      [] f = "throws" -> StartCatchResponse]
    /\ call' = [call EXCEPT !.pc = "responded"]
    /\ UNCHANGED <<file, validated, calls, input>>

NextRoutes ==
    \/ UploadResume
    \/ StartInterview
    \/ StartReadDone
    \/ StartLibraryDone
    \/ StartFetchDone

SpecRoutes == InitRoutes /\ [][NextRoutes]_vars

----------------------------------------------------------------------------
(* sanitizeFilename applied to bounded file names *)

\* length of the short file names
MaxFilenameLen == 4

FilenameAlphabet == {".", "/", "\\", "a", " ", "@"}

\* the short names over the alphabet, and names around the length limit
Filenames ==
    UNION { [1..n -> FilenameAlphabet] : n \in 0..MaxFilenameLen }
    \cup { Rep("a", n) \o <<".", "p", "d", "f">> :
              n \in {MaxSanitizedLength - 5, MaxSanitizedLength - 4, MaxSanitizedLength - 3} }

InitFilename ==
    /\ input \in Filenames
    /\ out = [stage |-> "init", name |-> <<>>]
    /\ file = [path |-> <<>>, status |-> "missing", size |-> 0]
    /\ call = Idle
    /\ validated = FALSE
    /\ calls = 0

SanitizeFilename ==
    /\ out.stage = "init"
    /\ out' = [stage |-> "sanitized", name |-> sanitizeFilename(input)]
    /\ UNCHANGED <<file, call, validated, calls, input>>

NextFilename == SanitizeFilename

SpecFilename == InitFilename /\ [][NextFilename]_vars

----------------------------------------------------------------------------
(* Notions the claims are stated in *)

\* positions at which a word (a maximal run of non-whitespace) starts
WordStarts(s) ==
    { i \in 1..Len(s) : ~IsWhitespace(s[i]) /\ (i = 1 \/ IsWhitespace(s[i-1])) }

NumWords(s) == Cardinality(WordStarts(s))

HasWhitespaceRun(s) ==
    \E i \in 1..(Len(s) - 1) : IsWhitespace(s[i]) /\ IsWhitespace(s[i+1])

HasLineBreakRun3(s) ==
    \E i \in 1..(Len(s) - 2) : s[i] = "\n" /\ s[i+1] = "\n" /\ s[i+2] = "\n"

HasOuterWhitespace(s) ==
    s # <<>> /\ (IsWhitespace(s[1]) \/ IsWhitespace(s[Len(s)]))

SupportedExtensions == { <<".", "p", "d", "f">>, <<".", "d", "o", "c", "x">> }

ParseFinished == call.op = "parseResume" /\ call.pc \in {"returned", "thrown"}

ValidateFinished == call.op = "validateResumeFile" /\ call.pc \in {"returned", "thrown"}

Logged(what) == \E i \in 1..Len(call.logged) : call.logged[i].what = what

----------------------------------------------------------------------------
(* Claims *)

\* C1: for a path whose lower-cased extension is neither .pdf nor .docx,
\* parseResume fails with the unsupported-format error, whose message names
\* the rejected extension, and no readFile call has been issued.
C1_UnsupportedFormat ==
    (call.op = "parseResume"
        /\ toLowerCase(extname(call.path)) \notin SupportedExtensions)
    => /\ call.pc = "thrown"
       /\ call.error.isError
       /\ call.error.message = UnsupportedMessage
       /\ call.error.arg = toLowerCase(extname(call.path))
       /\ call.reads = 0

C1_Witness ==
    /\ call.op = "parseResume"
    /\ call.path = <<"r", ".", "d", "o", "c">>
    /\ call.pc = "thrown"

\* C2: a text parseResume returns has at least 50 characters, no run of 3 or
\* more line breaks, no run of 2 or more whitespace characters, and no
\* leading or trailing whitespace.
C2_ReturnedTextNormalized ==
    (call.op = "parseResume" /\ call.pc = "returned")
    => /\ call.fmt \in {"pdf", "docx"}
       /\ Len(call.text) >= 50
       /\ ~HasLineBreakRun3(call.text)
       /\ ~HasWhitespaceRun(call.text)
       /\ ~HasOuterWhitespace(call.text)

C2_Witness ==
    /\ call.op = "parseResume"
    /\ call.pc = "returned"
    /\ call.fmt = "docx"
    /\ HasLineBreakRun3(call.raw)
    /\ HasOuterWhitespace(call.raw)

\* C3 (as claimed): when the library returns an empty or whitespace-only
\* text, parseResume fails with the empty-content error of the format, which
\* differs from the decode-failure error.
C3_EmptyContentDistinct ==
    (ParseFinished /\ call.libReturned /\ IsEmptyText(call.raw))
    => /\ call.pc = "thrown"
       /\ call.error.message = EmptyMessage(call.fmt)
       /\ call.error.message # FailedMessage(call.fmt)

\* C4 (as claimed): when the file read or the library throws, parseResume
\* fails with the decode-failure error, and that error carries the exception.
C4_CauseWrapped ==
    (ParseFinished /\ call.exc # "none")
    => /\ call.pc = "thrown"
       /\ call.error.message = FailedMessage(call.fmt)
       /\ call.error.cause = call.exc

\* C4 (amended): when the file read or the library throws, parseResume fails
\* with the decode-failure error of the format and returns no text; the
\* exception is logged and is not carried by the error (no cause, and the
\* message is the fixed one).
C4_DecodeFailureNoCause ==
    (ParseFinished /\ call.exc # "none")
    => /\ call.pc = "thrown"
       /\ call.text = <<>>
       /\ call.error.isError
       /\ call.error.message = FailedMessage(call.fmt)
       /\ call.error.cause = "none"
       /\ Logged(call.exc)

C4_Witness ==
    /\ ParseFinished
    /\ call.fmt = "pdf"
    /\ call.exc = "PasswordException"

\* C5: once the extractor has succeeded, parseResume fails with the too-short
\* error exactly when the normalized text has fewer than 50 characters, and
\* returns that text otherwise.
C5_TooShortBoundary ==
    (ParseFinished /\ call.libReturned /\ ~IsEmptyText(call.raw))
    => IF Len(trim(cleanText(call.raw))) < 50
       THEN call.pc = "thrown" /\ call.error.message = TooShortMessage
       ELSE call.pc = "returned" /\ call.text = cleanText(call.raw)

C5_Witness ==
    /\ ParseFinished
    /\ call.pc = "returned"
    /\ Len(call.text) = 50
    /\ NumWords(call.text) = 1

\* C6 (as claimed): the core validates the size of the file before a format
\* extractor is run on its bytes, whoever stored the file: no extractor is
\* ever run on a file larger than 10 MiB.
C6_NoExtractorOnLargeFile ==
    (call.op = "parseResume" /\ call.pc = "library")
    => file.size <= 10485760

\* C7: on an existing file (access and stat succeed) validateResumeFile
\* returns the size error whenever the size exceeds 10485760 bytes, whatever
\* the extension; valid when the size is at most 10485760 and the lower-cased
\* extension is .pdf or .docx; the extension error otherwise.
C7_ValidateVerdict ==
    (ValidateFinished /\ call.exc = "none")
    => LET v == call.verdict
           ok == toLowerCase(extname(call.path)) \in SupportedExtensions
       IN  /\ file.size > 10485760 => ~v.valid /\ v.error = SizeMessage
           /\ (file.size <= 10485760 /\ ok) => v.valid
           /\ (file.size <= 10485760 /\ ~ok) => ~v.valid /\ v.error = ExtensionMessage

C7_Witness ==
    /\ ValidateFinished
    /\ call.exc = "none"
    /\ file.size = 10485760
    /\ call.verdict.valid

\* C8: validateResumeFile never throws; on a storage failure it returns
\* valid = false; the error field is present, and non-empty, exactly when
\* valid is false.
C8_ValidateNeverThrows ==
    (call.op = "validateResumeFile" /\ call.pc \notin {"access", "stat"})
    => /\ call.pc = "returned"
       /\ call.exc # "none" => ~call.verdict.valid
       /\ call.verdict.hasError <=> ~call.verdict.valid
       /\ ~call.verdict.valid => call.verdict.error # ""
       /\ call.verdict.valid => call.verdict.error = ""

C8_Witness ==
    /\ ValidateFinished
    /\ file.status = "ok"
    /\ call.exc = "ENOENT"

\* C9: hasContent is true exactly when the input has at least 50
\* whitespace-separated words (whitespace at either end adds no word), and
\* rawText is the normalized input.
C9_HasContentBoundary ==
    out.stage = "metadata"
    => /\ out.meta.hasContent <=> (NumWords(input) >= 50)
       /\ out.meta.rawText = cleanText(input)
       /\ out.meta.hasContent <=> (out.meta.wordCount >= 50)

C9_Witness ==
    /\ out.stage = "metadata"
    /\ NumWords(input) = 50
    /\ input # <<>> /\ IsWhitespace(input[Len(input)])
    /\ out.meta.hasContent

\* C10: normalizing a normalized text changes nothing.
C10_Idempotent ==
    out.stage = "renormalized" => out.twice = out.once

C10_Witness ==
    /\ out.stage = "renormalized"
    /\ out.once # input
    /\ out.once # <<>>

\* positions of s at which a word ends that is followed by a run of 3 or more
\* line breaks (and nothing else) and then another word
ParagraphBreaks(s) ==
    { i \in 1..Len(s) :
        /\ ~IsWhitespace(s[i])
        /\ \E k \in 3..(Len(s) - i - 1) :
              /\ \A j \in (i+1)..(i+k) : s[j] = "\n"
              /\ ~IsWhitespace(s[i+k+1]) }

\* positions of s at which a word ends that is followed by exactly two line
\* breaks and then another word
DoubleBreaks(s) ==
    { i \in 1..(Len(s) - 3) :
        /\ ~IsWhitespace(s[i])
        /\ s[i+1] = "\n" /\ s[i+2] = "\n"
        /\ ~IsWhitespace(s[i+3]) }

\* C11 (as claimed): two words of the input separated by a run of 3 or more
\* line breaks are separated by exactly 2 line breaks in the normalized text.
C11_ParagraphBreaksPreserved ==
    out.stage = "normalized"
    => Cardinality(DoubleBreaks(out.once)) = Cardinality(ParagraphBreaks(input))

\* the position of keyword k in skillKeywords (0 when it is none of them)
SkillIndex(k) ==
    IF \E i \in 1..Len(skillKeywords) : skillKeywords[i] = k
    THEN CHOOSE i \in 1..Len(skillKeywords) : skillKeywords[i] = k
    ELSE 0

\* number of entries of sequence items equal to x
Occurrences(items, x) == Cardinality({ i \in 1..Len(items) : items[i] = x })

\* C12: the skills are the keywords of the fixed list whose lower-cased form
\* is a substring of the lower-cased text, each once, in keyword-list order.
C12_SkillsInKeywordOrder ==
    out.stage = "sections"
    => LET skills == out.sections.skills
       IN  /\ \A i \in 1..Len(skillKeywords) :
                 Occurrences(skills, skillKeywords[i])
                   = IF includes(toLowerCase(input.text), toLowerCase(skillKeywords[i]))
                     THEN 1 ELSE 0
           /\ \A a \in 1..Len(skills) : SkillIndex(skills[a]) > 0
           /\ \A a, b \in 1..Len(skills) :
                 a < b => SkillIndex(skills[a]) < SkillIndex(skills[b])

\* the text names AWS before Python, AWS in lower case
C12_Witness ==
    /\ out.stage = "sections"
    /\ input.text = <<"a", "w", "s", " ", "P", "y", "t", "h", "o", "n", " ">>
    /\ out.sections.skills = << <<"P", "y", "t", "h", "o", "n">>, <<"A", "W", "S">> >>

\* the text holds a years-of-experience phrase: digits, an optional +,
\* "year" or "years", and "experience" with an optional "of" before it
HasYearsPhrase(t) == \E i \in 1..Len(t) : YearsMatchAt(t, i).last > 0

\* the digits of the years-of-experience phrases of t
YearsOf(t) == { YearsMatchAt(t, i).group : i \in { j \in 1..Len(t) : YearsMatchAt(t, j).last > 0 } }

\* C13 (as claimed): for a text holding a years-of-experience phrase, the
\* experience sequence has an entry produced by the years-of-experience
\* pattern (the number of years it captured).
C13_YearsEntryPresent ==
    (out.stage = "sections" /\ HasYearsPhrase(input.text))
    => \E k \in 1..Len(out.sections.experience) :
          out.sections.experience[k] \in YearsOf(input.text)

NameGiven == input.name.given /\ input.name.value # <<>>

\* C14: the prompt holds the whole text verbatim, whatever whitespace the text
\* starts or ends with; with a non-empty candidate name N it holds
\* "CANDIDATE NAME: N"; with the name omitted it holds "CANDIDATE NAME:"
\* only if the text does.
C14_NameAndTextVerbatim ==
    out.stage = "formatted"
    => /\ includes(out.prompt, input.text)
       /\ NameGiven => includes(out.prompt, <<"C", "A", "N", "D", "I", "D", "A", "T", "E", " ",
                                               "N", "A", "M", "E", ":", " ">> \o input.name.value)
       /\ ~input.name.given =>
             (includes(out.prompt, <<"C", "A", "N", "D", "I", "D", "A", "T", "E", " ",
                                     "N", "A", "M", "E", ":">>)
                => includes(input.text, <<"C", "A", "N", "D", "I", "D", "A", "T", "E", " ",
                                         "N", "A", "M", "E", ":">>))

C14_Witness ==
    /\ out.stage = "formatted"
    /\ NameGiven
    /\ HasOuterWhitespace(input.text)
    /\ IsWhitespace(input.text[1])
    /\ IsWhitespace(input.text[Len(input.text)])
    /\ Len(input.text) > 20

\* s ends with p
EndsWith(s, p) == Len(p) <= Len(s) /\ SubSeq(s, Len(s) - Len(p) + 1, Len(s)) = p

\* the first n items at most, joined by ", "
FirstJoined(items, n) ==
    join([k \in 1..(IF Len(items) < n THEN Len(items) ELSE n) |-> items[k]])

\* C15: the prompt ends with the fixed instruction block followed by the
\* "Key skills to explore:" line, present exactly when a skill was extracted
\* and listing the first 5 skills at most, and then the "Focus areas:" line,
\* present exactly when an experience phrase was extracted and listing the
\* first 3 phrases at most.
C15_SkillsAndFocusLines ==
    out.stage = "formatted"
    => LET skills == out.sections.skills
           experience == out.sections.experience
           skillsLine == IF Len(skills) >= 1
                         THEN SkillsLabel \o FirstJoined(skills, 5) \o <<"\n">>
                         ELSE <<>>
           focusLine == IF Len(experience) >= 1
                        THEN FocusLabel \o FirstJoined(experience, 3) \o <<"\n">>
                        ELSE <<>>
       IN  EndsWith(out.prompt, TrimEnd(InstructionBlock \o skillsLine \o focusLine))

C15_Witness ==
    /\ out.stage = "formatted"
    /\ Len(out.sections.skills) > 5
    /\ Len(out.sections.experience) > 3

\* the set of the entries of a sequence
Entries(items) == { items[k] : k \in 1..Len(items) }

NoDuplicates(items) == \A j, k \in 1..Len(items) : items[j] = items[k] => j = k

\* C16: extractContactInfo returns in emails every distinct matched e-mail
\* address exactly once (no entry twice, and as a set the entries are the
\* e-mail matches of the text), and likewise in phones; the text "Reach me at
\* a@b.com or a@b.com" yields emails of size 1.
C16_ContactDeduplicated ==
    out.stage = "contact" =>
        /\ NoDuplicates(out.contact.emails)
        /\ Entries(out.contact.emails) = Entries(ContactMatchesFrom("email", input.text, 1))
        /\ NoDuplicates(out.contact.phones)
        /\ Entries(out.contact.phones) = Entries(ContactMatchesFrom("phone", input.text, 1))
        /\ input.text = ContactScenarioText =>
               out.contact.emails = << <<"a", "@", "b", ".", "c", "o", "m">> >>

\* an address matched twice and listed once
C16_Witness ==
    /\ out.stage = "contact"
    /\ Len(ContactMatchesFrom("email", input.text, 1)) = 2
    /\ Len(out.contact.emails) = 1

\* C17 as stated: for every s that does not contain '</script>' and every t,
\* sanitizeResumeText('<script>' + s + '</script>' + t) equals
\* sanitizeResumeText(t).
C17_ScriptElementRemoved ==
    (out.stage = "element" /\ ~includes(input.s, ScriptClose)) =>
        out.text = sanitizeResumeText(input.t)

\* C17 amended: for every s that does not contain '</script>' in any letter
\* case and every t, sanitizeResumeText('<script>' + s + '</script>' + t)
\* equals sanitizeResumeText(t); '<script>alert(1)</script>Hello' yields
\* exactly 'Hello'.
C17_ScriptElementRemovedAnyCase ==
    out.stage = "element" =>
        /\ ~includes(toLowerCase(input.s), ScriptClose) =>
               out.text = sanitizeResumeText(input.t)
        /\ (/\ input.s = <<"a", "l", "e", "r", "t", "(", "1", ")">>
            /\ input.t = <<"H", "e", "l", "l", "o">>) =>
               out.text = <<"H", "e", "l", "l", "o">>

\* '<script>alert(1)</script>Hello' sanitized to 'Hello'
C17_Witness ==
    /\ out.stage = "element"
    /\ input.s = <<"a", "l", "e", "r", "t", "(", "1", ")">>
    /\ input.t = <<"H", "e", "l", "l", "o">>
    /\ out.text = <<"H", "e", "l", "l", "o">>

\* invocation i has returned or thrown
Finished(i) == call[i].inv.pc \in {"returned", "thrown"}

\* C18: concurrent parseResume invocations on different files do not
\* interfere: in every interleaving of their suspension points, an invocation
\* that has finished has exactly the outcome (text returned or error thrown,
\* and what it logged) it has when run alone on its file.
C18_NoInterference ==
    \A i \in Invocations : Finished(i) => call[i].inv = Alone(file[i])

\* both invocations have read a document, the two documents differ, and both
\* have finished: one returned its text, the other failed
C18_Witness ==
    /\ Finished(1) /\ Finished(2)
    /\ call[1].buffer # NoDocument /\ call[2].buffer # NoDocument
    /\ call[1].buffer # call[2].buffer
    /\ call[1].inv.pc = "returned"
    /\ call[2].inv.pc = "thrown"

DocExtension == <<".", "d", "o", "c">>

\* the last request was an upload of a .doc file that passes every check
DocUploadHandled ==
    /\ call.route = "upload"
    /\ call.pc = "responded"
    /\ input.kind = "file"
    /\ toLowerCase(extname(input.name)) = DocExtension
    /\ input.type = DocMime
    /\ input.size > 0
    /\ input.size <= MAX_FILE_SIZE
    /\ Len(input.name) <= MaxNameLength

\* the last request was a start-interview on the fileId of a stored .doc file
\* and has been answered
DocInterviewAnswered ==
    /\ call.route = "start"
    /\ call.pc = "responded"
    /\ input.json = "ok"
    /\ \E e \in file.entries : e.name = input.fileId \o DocExtension

\* C19: a .doc file (extension .doc, MIME application/msword, size within
\* limits) is not rejected by the upload handler and, when the handler
\* answers with success, is stored as fileId.doc; a later start-interview on
\* that fileId runs no extractor, reads no file and sends nothing to the voice
\* service, its parseResume throws the unsupported-format error naming .doc,
\* and the request ends in the error response 500 'Failed to start interview'
\* with no resume context.
C19_DocStoredThenUnsupported ==
    /\ DocUploadHandled =>
          /\ out.response.status # 400
          /\ out.response.status = 200 =>
                /\ out.wrote
                /\ out.response.success = "true"
                /\ \E e \in file.entries : e.name = out.response.fileId \o DocExtension
    /\ DocInterviewAnswered =>
          /\ out.response = StartCatchResponse
          /\ out.response.resumeContext = Omitted
          /\ call.fetches = 0
          /\ call.inv.reads = 0
          /\ ~call.inv.libReturned
          /\ call.inv.text = <<>>
          /\ call.inv.op = "parseResume" =>
                /\ call.inv.pc = "thrown"
                /\ call.inv.error.message = UnsupportedMessage
                /\ call.inv.error.arg = DocExtension

\* a start-interview on a stored .doc file whose parseResume has thrown the
\* unsupported-format error
C19_Witness ==
    /\ DocInterviewAnswered
    /\ call.inv.op = "parseResume"
    /\ call.inv.pc = "thrown"
    /\ call.inv.error.message = UnsupportedMessage
    /\ out.response.status = 500

\* the messages an error thrown by parseResume can carry
FixedMessages ==
    {UnsupportedMessage, PdfFailedMessage, DocxFailedMessage, TooShortMessage, GenericMessage}

\* C20: every error thrown by parseResume carries one of the fixed messages
\* (unsupported format naming the extension, PDF parse failure, DOCX parse
\* failure, empty-or-too-short resume, generic parse failure); the message of
\* a library or file-system exception is logged and is not the message or the
\* cause of the error that reaches the caller.
C20_FixedMessagesOnly ==
    (call.op = "parseResume" /\ call.pc = "thrown") =>
        /\ call.error.isError
        /\ call.error.message \in FixedMessages
        /\ call.error.message = UnsupportedMessage =>
               call.error.arg = toLowerCase(extname(call.path))
        /\ call.exc # "none" =>
               /\ call.error.message # call.exc
               /\ call.error.cause # call.exc
               /\ Logged(call.exc)

\* a read of a DOCX file failed with EACCES: logged, and the caller is thrown
\* the DOCX parse failure
C20_Witness ==
    /\ call.op = "parseResume"
    /\ call.pc = "thrown"
    /\ call.fmt = "docx"
    /\ call.exc = "EACCES"
    /\ Logged("EACCES")
    /\ call.error.message = DocxFailedMessage

\* every check of the upload handler passes on request req
ChecksPass(req) ==
    /\ req.kind = "file"
    /\ req.size > 0
    /\ req.size <= 10 * 1024 * 1024
    /\ req.type \in {PdfMime, DocxMime, DocMime}
    /\ toLowerCase(extname(req.name))
          \in { <<".", "p", "d", "f">>, <<".", "d", "o", "c", "x">>, DocExtension }
    /\ Len(req.name) <= 255

\* the form data of the last upload request were read: the response is not
\* one of the handler's catch block
FormDataRead(response) == response.error \notin {BodySizeMessage, UnexpectedMessage}

\* C21: the upload handler adds a file to the upload directory only for a
\* request that passes every check (a file, 0 < size <= 10 MiB, allowed MIME
\* type, lower-cased extension .pdf, .docx or .doc, name of at most 255
\* characters); a request that fails a check is answered with status 400 and
\* success false and leaves the directory as it was; the one file a request
\* adds is named by the generated id followed by the lower-cased extension.
C21_WriteOnlyAfterChecks ==
    [][ calls' = calls + 1 =>
          /\ file'.entries # file.entries =>
                /\ ChecksPass(input')
                /\ out'.wrote
                /\ out'.response.fileId \in FreshIds(file.entries)
                /\ file'.entries \ file.entries =
                      { [name |-> out'.response.fileId \o toLowerCase(extname(input'.name)),
                         doc  |-> input'.doc] }
                /\ out'.response.filepath
                      = out'.response.fileId \o toLowerCase(extname(input'.name))
          /\ out'.wrote => file'.entries # file.entries
          /\ (~ChecksPass(input') /\ FormDataRead(out'.response)) =>
                /\ out'.response.status = 400
                /\ out'.response.success = "false"
          /\ ~ChecksPass(input') =>
                /\ out'.response.success = "false"
                /\ ~out'.wrote
                /\ file' = file
      ]_vars

\* an upload named CV.Doc was stored under the generated id followed by .doc
C21_Witness ==
    /\ call.route = "upload"
    /\ out.wrote
    /\ out.response.status = 200
    /\ input.name = <<"C", "V", ".", "D", "o", "c">>
    /\ \E e \in file.entries : e.name = out.response.fileId \o DocExtension

\* the extractor has run on the input text
Extracted == out.stage \in {"sections", "formatted"}

\* the captured groups of all matches of the experience patterns in the text,
\* trimmed
TrimmedCaptures(text) ==
    TrimAll(MatchAllFrom(1, text, 1) \o MatchAllFrom(2, text, 1) \o MatchAllFrom(3, text, 1)
            \o MatchAllFrom(4, text, 1) \o MatchAllFrom(5, text, 1))

\* the places in the trimmed captures of those with more than 3 and fewer
\* than 100 characters
CapturesKept(captures) ==
    { i \in 1..Len(captures) : Len(captures[i]) > 3 /\ Len(captures[i]) < 100 }

\* the experience entries are the trimmed captures of more than 3 and fewer
\* than 100 characters, one entry for each
EntriesOfKept(experience, captures, kept) ==
    /\ \A k \in 1..Len(experience) :
          /\ trim(experience[k]) = experience[k]
          /\ Len(experience[k]) > 3
          /\ Len(experience[k]) < 100
          /\ \E i \in kept : experience[k] = captures[i]
    /\ \A i \in kept : \E k \in 1..Len(experience) : experience[k] = captures[i]
    /\ Len(experience) = Cardinality(kept)

\* C22: every entry of the experience sequence is a trimmed captured group of
\* more than 3 and fewer than 100 characters, every match whose trimmed group
\* has such a length gives an entry, and no other match does (3 and 100 are
\* dropped, 4 and 99 are kept).
C22_ExperienceLengths ==
    Extracted =>
        EntriesOfKept(out.sections.experience, TrimmedCaptures(input.text),
                      CapturesKept(TrimmedCaptures(input.text)))

\* the captures have one of the lengths of lens, and each of them is the
\* length of a capture
CaptureLengths(captures, lens) ==
    /\ \A l \in lens : \E i \in 1..Len(captures) : Len(captures[i]) = l
    /\ \A i \in 1..Len(captures) : Len(captures[i]) \in lens

\* the text with captures of trimmed length 3, 4, 99 and 100, one of them 100
\* characters long before it is trimmed, has been extracted: the entries are
\* the ones of length 4 and 99
C22_Witness ==
    /\ Extracted
    /\ input.text = BoundaryText
    /\ CaptureLengths(TrimmedCaptures(input.text), {3, 4, 99, 100})
    /\ \E k \in 1..Len(MatchAllFrom(3, input.text, 1)) :
          /\ Len(MatchAllFrom(3, input.text, 1)[k]) = 100
          /\ Len(trim(MatchAllFrom(3, input.text, 1)[k])) = 99
    /\ { Len(out.sections.experience[k]) : k \in 1..Len(out.sections.experience) } = {4, 99}
    /\ Len(out.sections.experience) = 3

\* the matches of pattern n at every position of the text where it matches
MatchTable(n, t) == [j \in MatchStarts(n, t, 1) |-> PatternMatchAt(n, t, j)]

MatchTables(t) == [n \in 1..NumPatterns |-> MatchTable(n, t)]

\* the matches of table starting in S do not overlap
NonOverlapping(table, S) ==
    \A a \in S, b \in S : a < b => table[a].last < b

\* every position at which the pattern matches lies in a match starting in S
Covering(table, S) ==
    \A j \in DOMAIN table : \E a \in S : a <= j /\ j <= table[a].last

\* the starts of the left-to-right, non-overlapping matches of a pattern
GlobalMatches(table) ==
    CHOOSE S \in SUBSET DOMAIN table : NonOverlapping(table, S) /\ Covering(table, S)

\* <<n, j>> for each global match of pattern n starting at j whose trimmed
\* group passes the length filter
KeptMatches(tables) ==
    { p \in UNION { { <<n, j>> : j \in GlobalMatches(tables[n]) } : n \in 1..NumPatterns } :
        /\ Len(trim(tables[p[1]][p[2]].group)) > MinPhraseLen
        /\ Len(trim(tables[p[1]][p[2]].group)) < MaxPhraseLen }

\* pattern first, position second
Precedes(p, q) == p[1] < q[1] \/ (p[1] = q[1] /\ p[2] < q[2])

\* the place of kept match p in that order
RankOf(kept, p) == Cardinality({ q \in kept : Precedes(q, p) }) + 1

\* the experience entries are the trimmed groups of the kept matches in the
\* order of Precedes
InPatternOrder(experience, tables, kept) ==
    /\ Len(experience) = Cardinality(kept)
    /\ \A p \in kept : experience[RankOf(kept, p)] = trim(tables[p[1]][p[2]].group)

\* C23: the experience sequence lists the kept matches by pattern first (years
\* of experience, worked as/at/with, developed, managed, led) and by position
\* in the text second, the matches of one pattern being its left-to-right,
\* non-overlapping matches.
C23_PatternThenPosition ==
    Extracted =>
        InPatternOrder(out.sections.experience, MatchTables(input.text),
                       KeptMatches(MatchTables(input.text)))

\* a kept match of an earlier pattern stands after one of a later pattern
LaterPatternFirst(kept) == \E p \in kept, q \in kept : p[1] < q[1] /\ q[2] < p[2]

\* a text extracted in which a phrase of a later pattern stands before a
\* phrase of an earlier one, and a match of a pattern starts inside another
\* match of the same pattern
C23_Witness ==
    /\ Extracted
    /\ input.text = OrderText
    /\ LaterPatternFirst(KeptMatches(MatchTables(input.text)))
    /\ \E n \in 1..NumPatterns :
          GlobalMatches(MatchTable(n, input.text)) # MatchStarts(n, input.text, 1)
    /\ Len(out.sections.experience) = 8

\* C24 (as claimed): wordCount is the number of whitespace-separated words of
\* the normalized text, for every input; it is 0 for an input that is empty or
\* holds whitespace only.
C24_WordCountIsNumWords ==
    out.stage = "metadata"
    => /\ out.meta.wordCount = NumWords(cleanText(input))
       /\ NumWords(input) = 0 => out.meta.wordCount = 0

\* the stored name is the id followed by an extension the upload route stores
StoredUnder(name, fileId) == \E ext \in ALLOWED_EXTENSIONS : name = fileId \o ext

\* the last request is a start-interview that has picked a stored file
ResumeFilePicked == call.route = "start" /\ DOMAIN call.found # {}

\* C25 (as claimed): the start-interview route parses only the stored file
\* whose name is the requested fileId followed by its extension; when no
\* stored file has that name (the fileId being, for example, a proper prefix
\* of the id of another upload) it picks no file, returns no resume context
\* and answers 404 'Resume not found' once the directory is listed.
C25_OnlyRequestedFile ==
    /\ ResumeFilePicked => StoredUnder(call.found.name, input.fileId)
    /\ (/\ call.route = "start"
        /\ input.json = "ok"
        /\ input.fileId # <<>>
        /\ \A e \in file.entries : ~StoredUnder(e.name, input.fileId))
       => /\ ~ResumeFilePicked
          /\ out.response.resumeContext = Omitted
          /\ out.response \in {Response(404, "", ResumeNotFoundMessage), StartCatchResponse}

\* the last request is a start-interview that has been answered
StartAnswered == call.route = "start" /\ call.pc = "responded"

\* parseResume has thrown in the last request
ParseFailed == call.inv.op = "parseResume" /\ call.inv.pc = "thrown"

\* C26: a request to the voice service is sent only after parseResume has
\* returned and the context has been formatted from its text; a start-interview
\* answered 400 (no fileId), 404 (no such file) or 500 after a failure of
\* parseResume has sent none.
C26_ParseBeforeFetch ==
    call.route = "start" =>
        /\ call.fetches > 0 =>
              /\ call.inv.op = "parseResume"
              /\ call.inv.pc = "returned"
              /\ call.context = formatResumeForAI(call.inv.text, input.candidateName)
        /\ (StartAnswered /\ out.response.status \in {400, 404}) => call.fetches = 0
        /\ (StartAnswered /\ ParseFailed) =>
              /\ out.response = StartCatchResponse
              /\ call.fetches = 0

\* a start-interview answered 500 after the stored file was read and the
\* extractor failed on it, nothing having been sent to the voice service
C26_Witness ==
    /\ StartAnswered
    /\ ParseFailed
    /\ call.inv.reads > 0
    /\ out.response = StartCatchResponse
    /\ call.fetches = 0

\* C27 (as claimed): the name sanitizeFilename returns holds no "..", no "/"
\* and no "\", and has at most 200 characters.
C27_NoTraversal ==
    out.stage = "sanitized"
    => /\ ~includes(out.name, <<".", ".">>)
       /\ \A i \in 1..Len(out.name) : out.name[i] \notin {"/", "\\"}
       /\ Len(out.name) <= 200

====
